---- MODULE Spec2Model ----
(***************************************************************************)
(* State-machine model of the ralph-dashboard realtime core:                *)
(*   - WatcherEventDispatcher (backend/app/ws/event_dispatcher.py)          *)
(*   - detect_project_status  (backend/app/projects/status.py)              *)
(*   - is_process_alive       (backend/app/utils/process.py)                *)
(*   - parse_implementation_plan (backend/app/plan/parser.py)               *)
(*   - parse_notification_file   (backend/app/notifications/service.py)     *)
(*   - FileWatcherService     (backend/app/ws/file_watcher.py)              *)
(*   - WebSocketHub           (backend/app/ws/hub.py)                       *)
(*   - start/stop/pause/resume (backend/app/control/process_manager.py)     *)
(*   - inject_project_message (backend/app/control/process_manager.py)      *)
(*   - FileWatcherService.refresh_projects (backend/app/ws/file_watcher.py) *)
(*   - websocket_endpoint     (backend/app/ws/router.py)                    *)
(*   - register/unregister and discover_all_project_paths                  *)
(*                            (backend/app/projects/router.py, service.py)  *)
(*                                                                         *)
(* The on-disk project files are the environment: the agent loop and other *)
(* processes write them at any time.  Every dictionary of the dispatcher   *)
(* is keyed by project id and is modelled as a function over ProjectIds.   *)
(*                                                                         *)
(* One specification per component keeps each state space small:           *)
(*   SpecLog, SpecLedger, SpecPlan, SpecNotif, SpecStatus, SpecWatch,      *)
(*   SpecHub, SpecControl, SpecInject, SpecRefresh, SpecEndpoint,          *)
(*   SpecRegistry.  SpecDispatch and SpecOrder combine the dispatcher's    *)
(*   handlers (and, in SpecOrder, the hub's broadcast) in one relation;    *)
(*   SpecPidRace splits the status evaluation at its file accesses;        *)
(*   SpecReconcile adds weak fairness of the queued dispatches.            *)
(* They share Init; each one's next-state relation leaves the variables    *)
(* of the other components unchanged.                                      *)
(***************************************************************************)
EXTENDS Integers, Sequences, FiniteSets, TLC

\* ------------------------------------------------------------------ bounds

\* Longest log file (bytes) the environment produces.
MaxLogLen == 4
\* Number of writes (appends, truncations, deletions) to the log files.
MaxLogWrites == 3
\* Number of truncations/deletions of one log file the environment performs.
MaxLogRewrites == 1

\* Longest iteration ledger (lines, over all projects) and largest iteration number.
MaxLedgerLines == 3
MaxIteration == 2

\* Environment writes to the PID file, the pause sentinel, the plan and the
\* pending-notification file, and process state changes (over all projects).
MaxEnvWrites == 3
\* Longest plan file (lines).
MaxPlanLines == 3

\* Writes to watched files, and ticks of the clock after the start.
MaxWatchWrites == 3
MaxTicks == 3

\* Broadcasts of the hub.
MaxBroadcasts == 2

\* Calls of the process supervisor (start, stop, pause, resume).
MaxCalls == 3
\* Longest message passed to inject (characters), and number of inject calls.
MaxMsgLen == 3
MaxInjects == 3
\* Events the dispatcher emits in SpecOrder, and writes of its environment.
MaxEmits == 4
MaxOrderWrites == 2
\* Requests that end in a refresh of the watcher (start, register, unregister).
MaxRequests == 4

\* ------------------------------------------------------- program constants

\* WatcherEventDispatcher._MAX_APPEND_BYTES (512 * 1024 in the source),
\* scaled so that a file larger than the cap fits the bounds.
MAX_APPEND_BYTES == 2
\* The prefix probe, min(1024, size) in the source, scaled the same way.
PROBE_BYTES == 1

\* _DEBOUNCE_SECONDS (0.5 s), in ticks of the model's clock.
DEBOUNCE_TICKS == 2

\* _MAX_QUEUE_SIZE (200), scaled down.
MAX_QUEUE_SIZE == 2

\* The most queued events one handled event drains (50), scaled down.
DRAIN_LIMIT == 1

\* ------------------------------------------------------------ basic values

ProjectIds == {"p1", "p2"}

\* Optional values: None is the empty tuple, Some(v) a one-element tuple
\* (dict.get(key) returning None, a missing key, a missing file).
None == << >>
Some(v) == << v >>
IsNone(x) == x = << >>
Get(x) == x[1]

Min(a, b) == IF a <= b THEN a ELSE b
Max(a, b) == IF a >= b THEN a ELSE b

NL == "\n"
LogBytes == {"a", NL}

\* ------------------------------------------------------------------- state

VARIABLES
    \* hub.emit calls in order: [type, project, data]
    events,
    \* .ralph/ralph.log of each project: [exists, data, stamp]; stamp stands
    \* for st_mtime_ns and st_ctime_ns, both renewed by every write
    logFile,
    \* WatcherEventDispatcher._log_offsets, _log_mtimes_ns, _log_ctimes_ns,
    \* _log_prefixes, _log_remainders
    log_offsets, log_mtimes_ns, log_ctimes_ns, log_prefixes, log_remainders,
    \* the log read in progress: None, or Some([project, size, stamp]) after
    \* change.path.stat() and before the chunk is read
    logInflight,
    \* history of the log, for stating the properties:
    \*   logDirty: written since the last stat of a dispatch
    \*   logRaced: written between the stat and the read of one dispatch
    \*   logRewrites: number of truncations and deletions so far
    \*   logSeen: "never", or "small"/"big": the size against the cap when
    \*            a dispatch first read the file
    \*   logReads: dispatches completed since the file was last emptied (0, 1, 2 = more)
    \*   logEpoch: Len(events) when the file was last emptied
    \*   logTruncated: the file was last emptied by a truncation
    logDirty, logRaced, logRewrites, logTruncated, logSeen, logReads, logEpoch

VARIABLES
    \* .ralph/iterations.jsonl of each project: a sequence of lines
    ledger,
    \* WatcherEventDispatcher._started_iterations, _completed_iterations
    started_iterations, completed_iterations,
    \* history: dispatches of the ledger since its last write (0, 1, 2 = more)
    ledgerReads

ledgerVars == << ledger, started_iterations, completed_iterations, ledgerReads >>

VARIABLES
    \* .ralph/ralph.pid of each project: [exists, valid, pid]; valid says that
    \* the text parses as an integer
    pidFile,
    \* the process the PID of the file names: [state, foreign, comm]
    loopProc,
    \* .ralph/pause exists
    pauseFile,
    \* IMPLEMENTATION_PLAN.md: [exists, lines]
    planFile,
    \* WatcherEventDispatcher._statuses, _plan_snapshots
    statuses, plan_snapshots,
    \* history: environment writes so far; dispatches of the plan since its
    \* last write (0, 1, 2 = more)
    \* the last write of the plan reproduced the structure of the last
    \* plan_updated; the last status evaluation emitted nothing
    envWrites, planReads, planRepeat, statusQuiet

VARIABLES
    \* .ralph/pending-notification.txt: [exists, content, mtime]
    notifFile,
    \* WatcherEventDispatcher._last_notification_keys
    last_notification_keys,
    \* history: the run of consecutive dispatches that read the same content
    notifRun

notifVars == << notifFile, last_notification_keys, notifRun >>

VARIABLES
    \* the monotonic clock, in ticks
    clock,
    \* file system notifications the observer thread has not yet handled
    fsEvents,
    \* _ProjectEventHandler._last_event_times, by path
    last_event_times,
    \* queue.put_nowait calls scheduled with call_soon_threadsafe
    scheduledPuts,
    \* FileWatcherService._queue
    queue,
    \* last_handled of _consume_events, by path
    last_handled,
    \* history: writes of each watched file; the number of writes the last
    \* dispatch for the file could observe
    fileVer, seenVer,
    \* history: the number of events taken off the queue; the events passed
    \* to on_change, each with its place in the order of the queue and
    \* whether the handler ran without an exception
    dequeued, handledLog,
    \* history: the notifications on_any_event has seen: [path, at, full,
    \* queued], with the clock, whether the queue was at capacity, and whether
    \* a ChangeEvent was queued for it
    notifyLog

watchVars == << clock, fsEvents, last_event_times, scheduledPuts, queue, last_handled,
                fileVer, seenVer, dequeued, handledLog, notifyLog >>

VARIABLES
    \* the state of each websocket: "new", "open", "broken" (send_json raises)
    sockState,
    \* WebSocketHub._connections, _subscriptions (a function on its keys)
    connections, subscriptions,
    \* the broadcasts begun so far, each with its targets still to send to,
    \* whether it has ended, and as history: who was eligible when the
    \* targets were selected, who got the payload, for whom the send failed,
    \* and whose send had failed in a broadcast that had ended before
    broadcasts

hubVars == << sockState, connections, subscriptions, broadcasts >>

VARIABLES
    \* the processes start has launched, by PID: [state, foreign, comm]
    procTable,
    \* of each launched process: whether it traps SIGTERM, and the child it
    \* has in its process group: "none", "obedient", "stubborn" (ignores SIGTERM)
    procTraits,
    \* the stop call under way for each project: None, or its PID, its phase
    \* ("grace", "killwait") and whether the PID named a running process
    \* when the call began
    stopCall,
    \* history: the signals stop has sent, by project
    signalLog,
    \* history: the number of supervisor calls begun, and the last one that
    \* returned: [op, project, ok, pid, error]
    callCount, lastCall

ctlVars == << procTable, procTraits, stopCall, signalLog, callCount, lastCall >>

VARIABLES
    \* .ralph/inject.md of each project: None, or its bytes
    injectFile,
    \* history: the stripped messages inject has written since the loop last
    \* consumed the file, and the number of inject calls
    injected, injectCalls,
    \* the last inject call: [project, ok, payload, before]
    lastInject

injVars == << injectFile, injected, injectCalls, lastInject >>

VARIABLES
    \* FileWatcherService._running and the keys of _observers
    svcRunning, observers,
    \* the root directory of each project: "dir", "missing", or "denied"
    \* (a directory the watch of which raises OSError)
    rootState,
    \* the projects with a ChangeEvent in the queue
    queuedFor,
    \* history: the desired set of the last refresh, and a bit every call of
    \* refresh_projects on a running service flips
    lastDesired, refreshTick

refreshVars == << svcRunning, observers, rootState, queuedFor, lastDesired, refreshTick >>

VARIABLES
    \* where websocket_endpoint is for each websocket: "idle" (not called),
    \* "awaitAuth" (waiting for the first message), "gone" (returned as the
    \* client went away), "returned" (after closing the websocket), "raised"
    epState,
    \* history: the token each websocket has presented ("none" for none)
    epToken,
    \* history: the calls made on the websockets, in order:
    \* [sock, call, code, reason, message]
    wsLog

endpointVars == << epState, epToken, wsLog >>

VARIABLES
    \* a status evaluation between reading the PID file and unlinking it:
    \* None, or [project, running, unlinks]
    pidCheck,
    \* history: the branch of _dispatch taken last, "none" before the first
    lastDispatch,
    \* the broadcasts of the dispatcher's events, emits[k] for events[k]:
    \* [remaining, failed, ended], remaining the targets not yet sent to
    emits,
    \* history: for each websocket the indices in events of what it was
    \* sent since it subscribed last
    received

orderVars == << emits, received >>

VARIABLES
    \* the registered projects (the setting registered_project_paths)
    registry,
    \* _discovered_paths_cache: None, or the project list discovered last
    discoveryCache,
    \* whether _discovered_paths_timestamp is less than the TTL ago
    cacheFresh,
    \* the requests that end in refresh_projects, one per caller:
    \* [stage, op, project], stage "idle", "scanning" (suspended in
    \* asyncio.to_thread) or "done"
    refreshCalls,
    \* requests made so far
    requestCount

regVars == << registry, discoveryCache, cacheFresh, refreshCalls, requestCount >>

raceVars == << pidCheck, lastDispatch, orderVars, regVars >>

\* No status evaluation is under way, nothing was emitted.
InitRace ==
    /\ pidCheck = None
    /\ lastDispatch = "none"
    /\ emits = << >>
    /\ received = [w \in {"w1", "w2"} |-> << >>]
    /\ registry = {}
    /\ discoveryCache = None
    /\ cacheFresh = FALSE
    /\ refreshCalls = [c \in {1, 2} |-> [stage |-> "idle", op |-> "none", project |-> "p1"]]
    /\ requestCount = 0

\* The variables of the components added after the realtime core.
extVars == << injVars, refreshVars, endpointVars, raceVars >>

statusVars == << pidFile, loopProc, pauseFile, statuses, statusQuiet >>
planVars == << planFile, plan_snapshots, planReads, planRepeat >>

logVars == << logFile, log_offsets, log_mtimes_ns, log_ctimes_ns, log_prefixes,
              log_remainders, logInflight, logDirty, logRaced, logRewrites,
              logTruncated, logSeen, logReads, logEpoch >>

vars == << events, logVars, ledgerVars, statusVars, planVars, notifVars, watchVars, hubVars,
          ctlVars, envWrites, extVars >>

\* --------------------------------------------------------------- sequences

Take(s, n) == SubSeq(s, 1, Min(n, Len(s)))
Drop(s, n) == SubSeq(s, n + 1, Len(s))

\* All sequences over S of length lo..hi.
SeqsUpTo(S, lo, hi) == UNION { [1..n -> S] : n \in lo..hi }

\* The sum of f[x] over x in S.
RECURSIVE SumOver(_, _)
SumOver(f, S) ==
    IF S = {} THEN 0
    ELSE LET x == CHOOSE y \in S : TRUE IN f[x] + SumOver(f, S \ {x})

\* hub.emit(event_type, project, data): the envelope without its timestamp.
Emit(evs, type, p, data) == Append(evs, [type |-> type, project |-> p, data |-> data])

\* ---------------------------------------------------------------- log tail

\* Index of the last line terminator of s, 0 if none.
LastTerminator(s) ==
    LET idx == { i \in 1..Len(s) : s[i] = NL }
    IN IF idx = {} THEN 0 ELSE CHOOSE i \in idx : \A j \in idx : j <= i

\* buffer.splitlines(keepends=True), then the pop of an unterminated last
\* line: the complete lines joined, and the remainder.
CompleteLines(buffer) == Take(buffer, LastTerminator(buffer))
Remainder(buffer) == Drop(buffer, LastTerminator(buffer))

\* The byte offset the chunk is read from, once the size is known.
LogRewrittenByTime(p, stamp) ==
    \/ ~IsNone(log_mtimes_ns[p]) /\ stamp # Get(log_mtimes_ns[p])
    \/ ~IsNone(log_ctimes_ns[p]) /\ stamp # Get(log_ctimes_ns[p])

LogRewrittenByPrefix(p, current_prefix) ==
    ~IsNone(log_prefixes[p]) /\ current_prefix # Get(log_prefixes[p])

\* Whether the stored offset is given up for 0 (lines 162-174).
LogResets(p, size, stamp, current_prefix) ==
    LET previous_offset == IF IsNone(log_offsets[p]) THEN 0 ELSE Get(log_offsets[p])
    IN \/ size < previous_offset
       \/ /\ size = previous_offset
          /\ LogRewrittenByTime(p, stamp) \/ LogRewrittenByPrefix(p, current_prefix)

\* Whether the read skips to size - cap (lines 178-180).
LogSkipsToTail(offset, size) == offset = 0 /\ size > MAX_APPEND_BYTES

\* The offset stored after the read (line 192).
LogNextOffset(start, size, chunk) == size

\* Writes to the log files so far (every write renews the file's stamp).
LogWrites == SumOver([p \in ProjectIds |-> logFile[p].stamp], ProjectIds)

\* A write while a dispatch of p is between its stat and its read.
LogRacing(p) == ~IsNone(logInflight) /\ Get(logInflight).project = p

\* The environment: the agent loop appends to the log, creating it if needed.
LogAppend(p, chunk) ==
    /\ LogWrites < MaxLogWrites
    /\ Len(logFile[p].data) + Len(chunk) <= MaxLogLen
    /\ logFile' = [logFile EXCEPT ![p] = [exists |-> TRUE,
                                          data |-> @.data \o chunk,
                                          stamp |-> @.stamp + 1]]
    /\ logDirty' = [logDirty EXCEPT ![p] = TRUE]
    /\ logRaced' = [logRaced EXCEPT ![p] = @ \/ LogRacing(p)]
    /\ UNCHANGED << events, log_offsets, log_mtimes_ns, log_ctimes_ns, log_prefixes,
                    log_remainders, logInflight, logRewrites, logTruncated, logSeen,
                    logReads, logEpoch >>

\* The environment truncates the log to zero length (rotation, a new run).
LogTruncate(p) ==
    /\ logFile[p].exists
    /\ logFile[p].data # << >>
    /\ LogWrites < MaxLogWrites
    /\ logRewrites[p] < MaxLogRewrites
    /\ logFile' = [logFile EXCEPT ![p] = [exists |-> TRUE, data |-> << >>,
                                          stamp |-> @.stamp + 1]]
    /\ logDirty' = [logDirty EXCEPT ![p] = TRUE]
    /\ logRaced' = [logRaced EXCEPT ![p] = @ \/ LogRacing(p)]
    /\ logRewrites' = [logRewrites EXCEPT ![p] = @ + 1]
    /\ logTruncated' = [logTruncated EXCEPT ![p] = TRUE]
    /\ logReads' = [logReads EXCEPT ![p] = 0]
    /\ logEpoch' = [logEpoch EXCEPT ![p] = Len(events)]
    /\ UNCHANGED << events, log_offsets, log_mtimes_ns, log_ctimes_ns, log_prefixes,
                    log_remainders, logInflight, logSeen >>

\* The environment removes the log file.
LogDelete(p) ==
    /\ logFile[p].exists
    /\ LogWrites < MaxLogWrites
    /\ logRewrites[p] < MaxLogRewrites
    /\ logFile' = [logFile EXCEPT ![p] = [exists |-> FALSE, data |-> << >>,
                                          stamp |-> @.stamp + 1]]
    /\ logDirty' = [logDirty EXCEPT ![p] = TRUE]
    /\ logRaced' = [logRaced EXCEPT ![p] = @ \/ LogRacing(p)]
    /\ logRewrites' = [logRewrites EXCEPT ![p] = @ + 1]
    /\ logTruncated' = [logTruncated EXCEPT ![p] = FALSE]
    /\ logReads' = [logReads EXCEPT ![p] = 0]
    /\ logEpoch' = [logEpoch EXCEPT ![p] = Len(events)]
    /\ UNCHANGED << events, log_offsets, log_mtimes_ns, log_ctimes_ns, log_prefixes,
                    log_remainders, logInflight, logSeen >>

\* The except OSError branch of _read_log_append_lines (lines 184-190): all
\* log state of the project is dropped and nothing is emitted.
LogReadFails(p) ==
    /\ log_offsets' = [log_offsets EXCEPT ![p] = None]
    /\ log_mtimes_ns' = [log_mtimes_ns EXCEPT ![p] = None]
    /\ log_ctimes_ns' = [log_ctimes_ns EXCEPT ![p] = None]
    /\ log_prefixes' = [log_prefixes EXCEPT ![p] = None]
    /\ log_remainders' = [log_remainders EXCEPT ![p] = << >>]
    /\ logInflight' = None
    /\ logReads' = [logReads EXCEPT ![p] = Min(@ + 1, 2)]
    /\ UNCHANGED << events, logFile, logRaced, logRewrites, logTruncated, logSeen, logEpoch >>

\* handle_change for .ralph/ralph.log, first half: change.path.stat().
\* The dispatch lock and the single consumer allow one dispatch at a time.
LogDispatchStat(p) ==
    /\ IsNone(logInflight)
    /\ logDirty' = [logDirty EXCEPT ![p] = FALSE]
    /\ IF logFile[p].exists
       THEN /\ logInflight' = Some([project |-> p,
                                    size |-> Len(logFile[p].data),
                                    stamp |-> logFile[p].stamp])
            /\ UNCHANGED << events, logFile, log_offsets, log_mtimes_ns, log_ctimes_ns,
                            log_prefixes, log_remainders, logRaced, logRewrites,
                            logTruncated, logSeen, logReads, logEpoch >>
       ELSE LogReadFails(p)

\* handle_change for .ralph/ralph.log, second half: open, probe the prefix,
\* settle the offset, read the chunk, store the cursor, split into lines and
\* emit log_append (_read_log_append_lines and _handle_log_change).
LogDispatchRead(p) ==
    /\ ~IsNone(logInflight)
    /\ Get(logInflight).project = p
    /\ UNCHANGED logDirty
    /\ IF ~logFile[p].exists
       THEN LogReadFails(p)
       ELSE
         LET size == Get(logInflight).size
             stamp == Get(logInflight).stamp
             data == logFile[p].data
             current_prefix == Take(data, Min(PROBE_BYTES, size))
             stored_offset == IF IsNone(log_offsets[p]) THEN 0 ELSE Get(log_offsets[p])
             resets == LogResets(p, size, stamp, current_prefix)
             offset1 == IF resets THEN 0 ELSE stored_offset
             skips == LogSkipsToTail(offset1, size)
             previous_offset == IF skips THEN size - MAX_APPEND_BYTES ELSE offset1
             kept == IF resets \/ skips THEN << >> ELSE log_remainders[p]
             chunk == SubSeq(data, previous_offset + 1,
                             Min(Len(data), previous_offset + MAX_APPEND_BYTES))
             buffer == kept \o chunk
             lines == CompleteLines(buffer)
         IN /\ log_offsets' = [log_offsets EXCEPT ![p] = Some(LogNextOffset(previous_offset, size, chunk))]
            /\ log_mtimes_ns' = [log_mtimes_ns EXCEPT ![p] = Some(stamp)]
            /\ log_ctimes_ns' = [log_ctimes_ns EXCEPT ![p] = Some(stamp)]
            /\ log_prefixes' = [log_prefixes EXCEPT ![p] = Some(current_prefix)]
            /\ log_remainders' = [log_remainders EXCEPT ![p] =
                                    IF chunk = << >> THEN kept ELSE Remainder(buffer)]
            /\ events' = IF chunk # << >> /\ lines # << >>
                         THEN Emit(events, "log_append", p, [lines |-> lines])
                         ELSE events
            /\ logInflight' = None
            /\ logSeen' = [logSeen EXCEPT ![p] =
                             IF @ # "never" THEN @
                             ELSE IF size > MAX_APPEND_BYTES THEN "big" ELSE "small"]
            /\ logReads' = [logReads EXCEPT ![p] = Min(@ + 1, 2)]
            /\ UNCHANGED << logFile, logRaced, logRewrites, logTruncated, logEpoch >>

InitLog ==
    /\ logFile = [p \in ProjectIds |-> [exists |-> FALSE, data |-> << >>, stamp |-> 0]]
    /\ log_offsets = [p \in ProjectIds |-> None]
    /\ log_mtimes_ns = [p \in ProjectIds |-> None]
    /\ log_ctimes_ns = [p \in ProjectIds |-> None]
    /\ log_prefixes = [p \in ProjectIds |-> None]
    /\ log_remainders = [p \in ProjectIds |-> << >>]
    /\ logInflight = None
    /\ logDirty = [p \in ProjectIds |-> FALSE]
    /\ logRaced = [p \in ProjectIds |-> FALSE]
    /\ logRewrites = [p \in ProjectIds |-> 0]
    /\ logTruncated = [p \in ProjectIds |-> FALSE]
    /\ logSeen = [p \in ProjectIds |-> "never"]
    /\ logReads = [p \in ProjectIds |-> 0]
    /\ logEpoch = [p \in ProjectIds |-> 0]

\* The projects whose log is written and tailed in SpecLog; the entries of
\* the other projects stay as constructed.
LogProjects == {"p1"}

\* What a step of the log tail leaves alone.
LogFrame ==
    UNCHANGED << ledgerVars, extVars, statusVars, planVars, notifVars, watchVars, hubVars, ctlVars, envWrites >>

NextLog ==
    \/ \E p \in LogProjects : \E chunk \in SeqsUpTo(LogBytes, 1, MAX_APPEND_BYTES + 1) :
            LogAppend(p, chunk) /\ LogFrame
    \/ \E p \in LogProjects : LogTruncate(p) /\ LogFrame
    \/ \E p \in LogProjects : LogDelete(p) /\ LogFrame
    \/ \E p \in LogProjects : LogDispatchStat(p) /\ LogFrame
    \/ \E p \in LogProjects : LogDispatchRead(p) /\ LogFrame

\* -------------------------------------------------------- iteration ledger

\* A line of iterations.jsonl as json.loads sees it: a record with an
\* iteration number, an object without one, or text that is not JSON (a
\* line still being written, or one cut by the 4096-byte tail window).
LedgerLines ==
    [kind : {"record"}, iteration : 1..MaxIteration]
        \cup {[kind |-> "no_iteration", iteration |-> 0],
              [kind |-> "malformed", iteration |-> 0]}

\* _read_last_jsonl_record: the last line of the file only; None for an
\* empty or unreadable file and for a last line that does not parse.
ReadLastJsonlRecord(lines) ==
    IF lines = << >> THEN None
    ELSE LET last == lines[Len(lines)]
         IN IF last.kind = "malformed" THEN None ELSE Some(last)

\* record.get("iteration")
IterationOf(record) ==
    IF record.kind = "record" THEN Some(record.iteration) ELSE None

\* A dispatcher that announces whatever the last line says.
IterationNeverAnnounced(announced, iteration_num) == FALSE

\* The guards of lines 113 and 121.
IterationAnnounced(announced, iteration_num) == iteration_num \in announced

\* The environment: the agent loop appends a line to the ledger.
LedgerAppend(p, line) ==
    /\ SumOver([q \in ProjectIds |-> Len(ledger[q])], ProjectIds) < MaxLedgerLines
    /\ ledger' = [ledger EXCEPT ![p] = Append(@, line)]
    /\ ledgerReads' = [ledgerReads EXCEPT ![p] = 0]
    /\ UNCHANGED << events, started_iterations, completed_iterations >>

\* handle_change for .ralph/iterations.jsonl: _handle_iterations_change.
LedgerDispatch(p) ==
    LET record == ReadLastJsonlRecord(ledger[p])
        iteration_num == IF IsNone(record) THEN None ELSE IterationOf(Get(record))
    IN /\ ledgerReads' = [ledgerReads EXCEPT ![p] = Min(@ + 1, 2)]
       /\ UNCHANGED ledger
       /\ IF IsNone(iteration_num)
          THEN UNCHANGED << events, started_iterations, completed_iterations >>
          ELSE LET n == Get(iteration_num)
                   start == ~IterationAnnounced(started_iterations[p], n)
                   complete == ~IterationAnnounced(completed_iterations[p], n)
                   ev1 == IF start
                          THEN Emit(events, "iteration_started", p, [iteration |-> n])
                          ELSE events
                   ev2 == IF complete
                          THEN Emit(ev1, "iteration_completed", p, [iteration |-> n])
                          ELSE ev1
               IN /\ started_iterations' = [started_iterations EXCEPT ![p] = @ \cup {n}]
                  /\ completed_iterations' = [completed_iterations EXCEPT ![p] = @ \cup {n}]
                  /\ events' = ev2

InitLedger ==
    /\ ledger = [p \in ProjectIds |-> << >>]
    /\ started_iterations = [p \in ProjectIds |-> {}]
    /\ completed_iterations = [p \in ProjectIds |-> {}]
    /\ ledgerReads = [p \in ProjectIds |-> 0]

\* What a step of the ledger leaves alone.
LedgerFrame ==
    UNCHANGED << logVars, statusVars, planVars, notifVars, watchVars, hubVars, ctlVars, envWrites,
                 extVars >>

NextLedger ==
    \/ \E p \in ProjectIds : \E line \in LedgerLines : LedgerAppend(p, line) /\ LedgerFrame
    \/ \E p \in ProjectIds : LedgerDispatch(p) /\ LedgerFrame

\* ---------------------------------------------------------- project status

\* What the PID of a PID file can name: no process, a running one, a zombie;
\* foreign: owned by another user, so that os.kill raises PermissionError;
\* comm: the words of its command name, in parentheses in /proc/<pid>/stat.
LoopProcs ==
    { [state |-> "none", foreign |-> FALSE, comm |-> << >>],
      [state |-> "running", foreign |-> FALSE, comm |-> << "(ralph.sh)" >>],
      [state |-> "running", foreign |-> TRUE, comm |-> << "(ralph.sh)" >>],
      [state |-> "zombie", foreign |-> FALSE, comm |-> << "(ralph.sh)" >>],
      [state |-> "zombie", foreign |-> FALSE, comm |-> << "(ralph", "loop)" >>] }

\* read_pid: None for a missing file and for text that is no integer.
ReadPid(file) ==
    IF ~file.exists THEN None
    ELSE IF file.valid THEN Some(file.pid) ELSE None

\* os.kill(pid, 0): "ok", or the error raised.
KillProbe(proc) ==
    IF proc.state = "none" THEN "ProcessLookupError"
    ELSE IF proc.foreign THEN "PermissionError"
    ELSE "ok"

\* /proc/<pid>/stat split on white space: pid, the command name in
\* parentheses, the state letter, ...
StatFields(proc) ==
    << "pid" >> \o proc.comm \o << IF proc.state = "zombie" THEN "Z" ELSE "S" >>

\* is_zombie_pid: the third field of the stat line is "Z".
IsZombiePid(proc) ==
    /\ proc.state # "none"
    /\ Len(StatFields(proc)) >= 3
    /\ StatFields(proc)[3] = "Z"

\* is_process_alive
IsProcessAlive(proc) ==
    LET probe == KillProbe(proc)
    IN IF probe = "ProcessLookupError" THEN FALSE
       ELSE IF probe = "PermissionError" THEN TRUE
       ELSE ~IsZombiePid(proc)

\* _is_running: its result, and the PID file it leaves.
IsRunning(p) ==
    LET pid == ReadPid(pidFile[p])
    IN IF IsNone(pid)
       THEN [running |-> FALSE, unlinks |-> pidFile[p].exists]
       ELSE IF IsProcessAlive(loopProc[p])
            THEN [running |-> TRUE, unlinks |-> FALSE]
            ELSE [running |-> FALSE, unlinks |-> TRUE]

\* _is_plan_complete: some line of the plan is STATUS: COMPLETE.
IsPlanComplete(file) ==
    /\ file.exists
    /\ \E i \in 1..Len(file.lines) :
          file.lines[i].kind = "status" /\ file.lines[i].text = "COMPLETE"

\* detect_project_status
DetectProjectStatus(p) ==
    IF IsRunning(p).running
    THEN IF pauseFile[p] THEN "paused" ELSE "running"
    ELSE IF IsPlanComplete(planFile[p]) THEN "complete" ELSE "stopped"

\* pid_file.unlink(missing_ok=True) inside _is_running
PidFileAfterDetect(p) ==
    IF IsRunning(p).unlinks
    THEN [exists |-> FALSE, valid |-> FALSE, pid |-> 0]
    ELSE pidFile[p]

\* A dispatcher that forgets the status it announced.
StatusNeverUnchanged(previous, current) == FALSE

\* The guard of _emit_status_if_changed (line 280).
StatusUnchanged(previous, current) == previous = Some(current)

\* _emit_status_if_changed, on the events evs emitted so far in this dispatch.
EmitStatusIfChanged(p, evs) ==
    LET current == DetectProjectStatus(p)
        previous == statuses[p]
    IN /\ pidFile' = [pidFile EXCEPT ![p] = PidFileAfterDetect(p)]
       /\ statusQuiet' = [statusQuiet EXCEPT ![p] = StatusUnchanged(previous, current)]
       /\ IF StatusUnchanged(previous, current)
          THEN /\ events' = evs
               /\ UNCHANGED statuses
          ELSE /\ statuses' = [statuses EXCEPT ![p] = Some(current)]
               /\ events' = Emit(evs, "status_changed", p,
                                 [status |-> current, previous |-> previous])

\* handle_change for .ralph/ralph.pid and .ralph/pause, and
\* reconcile_project_status.
StatusDispatch(p) ==
    /\ EmitStatusIfChanged(p, events)
    /\ UNCHANGED << loopProc, pauseFile, envWrites >>

\* The environment: the loop script (or anyone) writes the PID file.
PidWrite(p, valid) ==
    /\ envWrites < MaxEnvWrites
    /\ envWrites' = envWrites + 1
    /\ pidFile' = [pidFile EXCEPT ![p] = [exists |-> TRUE, valid |-> valid,
                                          pid |-> IF valid THEN 7 ELSE 0]]
    /\ UNCHANGED << events, loopProc, pauseFile, statuses, statusQuiet >>

\* The environment: the process the PID names starts, exits, is reaped.
ProcChange(p, proc) ==
    /\ envWrites < MaxEnvWrites
    /\ envWrites' = envWrites + 1
    /\ proc # loopProc[p]
    /\ loopProc' = [loopProc EXCEPT ![p] = proc]
    /\ UNCHANGED << events, pidFile, pauseFile, statuses, statusQuiet >>

\* The environment: the pause sentinel is created or removed.
PauseToggle(p) ==
    /\ envWrites < MaxEnvWrites
    /\ envWrites' = envWrites + 1
    /\ pauseFile' = [pauseFile EXCEPT ![p] = ~@]
    /\ UNCHANGED << events, pidFile, loopProc, statuses, statusQuiet >>

InitStatus ==
    /\ pidFile = [p \in ProjectIds |-> [exists |-> FALSE, valid |-> FALSE, pid |-> 0]]
    /\ loopProc = [p \in ProjectIds |-> [state |-> "none", foreign |-> FALSE, comm |-> << >>]]
    /\ pauseFile = [p \in ProjectIds |-> FALSE]
    /\ statuses = [p \in ProjectIds |-> None]
    /\ statusQuiet = [p \in ProjectIds |-> FALSE]
    /\ envWrites = 0

\* -------------------------------------------------------------------- plan

StatusLine(text) == [kind |-> "status", text |-> text]
PhaseLine(name) == [kind |-> "phase", text |-> name]
TaskLine(done) == [kind |-> "task", text |-> IF done THEN "x" ELSE " "]
TextLine == [kind |-> "text", text |-> ""]

\* The lines of a plan as the regular expressions of the parser class them:
\* STATUS_RE, PHASE_RE, TASK_RE, or none of them.
PlanLines ==
    { StatusLine("COMPLETE"), StatusLine("IN PROGRESS"), PhaseLine("A"), PhaseLine("B"),
      TaskLine(TRUE), TaskLine(FALSE), TextLine }

\* _phase_status
PhaseStatus(done_count, total_count) ==
    IF total_count = 0 THEN "pending"
    ELSE IF done_count = total_count THEN "complete"
    ELSE IF done_count > 0 THEN "in_progress"
    ELSE "pending"

\* The loop of parse_implementation_plan over lines[i..]: status is the
\* STATUS value found so far, phases the phases with their counts so far.
RECURSIVE ParsePlanFrom(_, _, _, _)
ParsePlanFrom(lines, i, status, phases) ==
    IF i > Len(lines) THEN [status |-> status, phases |-> phases]
    ELSE LET line == lines[i]
             n == Len(phases)
         IN IF IsNone(status) /\ line.kind = "status"
            THEN ParsePlanFrom(lines, i + 1, Some(line.text), phases)
            ELSE IF line.kind = "phase"
            THEN ParsePlanFrom(lines, i + 1, status,
                               Append(phases, [name |-> line.text, done |-> 0, total |-> 0]))
            ELSE IF line.kind = "task" /\ n > 0
            THEN ParsePlanFrom(lines, i + 1, status,
                               [phases EXCEPT ![n] =
                                   [name |-> @.name,
                                    done |-> @.done + (IF line.text = "x" THEN 1 ELSE 0),
                                    total |-> @.total + 1]])
            ELSE ParsePlanFrom(lines, i + 1, status, phases)

\* parse_implementation_plan: status, the phases with their status, and the totals.
ParseImplementationPlan(lines) ==
    LET raw == ParsePlanFrom(lines, 1, None, << >>)
        phases == [k \in 1..Len(raw.phases) |->
                      [name |-> raw.phases[k].name,
                       done |-> raw.phases[k].done,
                       total |-> raw.phases[k].total,
                       status |-> PhaseStatus(raw.phases[k].done, raw.phases[k].total)]]
    IN [status |-> raw.status,
        phases |-> phases,
        tasks_done |-> SumOver([k \in 1..Len(phases) |-> phases[k].done], 1..Len(phases)),
        tasks_total |-> SumOver([k \in 1..Len(phases) |-> phases[k].total], 1..Len(phases))]

\* The structural fingerprint of _handle_plan_change (lines 232-238).
PlanSnapshot(parsed) ==
    [tasks_done |-> parsed.tasks_done, tasks_total |-> parsed.tasks_total,
     phases |-> parsed.phases]

\* A dispatcher that compares no fingerprints.
PlanSnapshotNeverSeen(stored, snapshot) == FALSE

\* The guard of line 239.
PlanSnapshotSeen(stored, snapshot) == stored = Some(snapshot)

\* handle_change for IMPLEMENTATION_PLAN.md: _handle_plan_change, then
\* _emit_status_if_changed.
PlanDispatch(p) ==
    /\ planReads' = [planReads EXCEPT ![p] = Min(@ + 1, 2)]
    /\ UNCHANGED << planFile, planRepeat, loopProc, pauseFile, envWrites >>
    /\ IF ~planFile[p].exists
       THEN /\ UNCHANGED plan_snapshots
            /\ EmitStatusIfChanged(p, events)
       ELSE LET parsed == ParseImplementationPlan(planFile[p].lines)
                snapshot == PlanSnapshot(parsed)
            IN IF PlanSnapshotSeen(plan_snapshots[p], snapshot)
               THEN /\ UNCHANGED plan_snapshots
                    /\ EmitStatusIfChanged(p, events)
               ELSE /\ plan_snapshots' = [plan_snapshots EXCEPT ![p] = Some(snapshot)]
                    /\ EmitStatusIfChanged(p,
                          Emit(events, "plan_updated", p,
                               [tasks_done |-> parsed.tasks_done,
                                tasks_total |-> parsed.tasks_total,
                                phases |-> parsed.phases,
                                status |-> parsed.status]))

\* The structure the last plan_updated of p in evs announced, if any.
LastPlanUpdated(evs, p) ==
    LET mine == SelectSeq(evs, LAMBDA e : e.type = "plan_updated" /\ e.project = p)
    IN IF mine = << >> THEN None
       ELSE Some([tasks_done |-> mine[Len(mine)].data.tasks_done,
                  tasks_total |-> mine[Len(mine)].data.tasks_total,
                  phases |-> mine[Len(mine)].data.phases])

\* A write of the plan file by the environment (the agent, an editor).
PlanWritten(p, lines) ==
    /\ envWrites < MaxEnvWrites
    /\ envWrites' = envWrites + 1
    /\ planFile' = [planFile EXCEPT ![p] = [exists |-> TRUE, lines |-> lines]]
    /\ planReads' = [planReads EXCEPT ![p] = 0]
    /\ planRepeat' = [planRepeat EXCEPT ![p] =
          LastPlanUpdated(events, p) = Some(PlanSnapshot(ParseImplementationPlan(lines)))]
    /\ UNCHANGED << events, plan_snapshots >>

\* The environment adds a line at the end of the plan, creating the file.
PlanAppendLine(p, line) ==
    /\ Len(planFile[p].lines) < MaxPlanLines
    /\ PlanWritten(p, Append(planFile[p].lines, line))

\* The environment ticks or unticks the task on line i.
PlanToggleTask(p, i) ==
    /\ i \in 1..Len(planFile[p].lines)
    /\ planFile[p].lines[i].kind = "task"
    /\ PlanWritten(p, [planFile[p].lines EXCEPT ![i] = TaskLine(@.text # "x")])

\* The environment removes line i.
PlanRemoveLine(p, i) ==
    /\ i \in 1..Len(planFile[p].lines)
    /\ PlanWritten(p, SubSeq(planFile[p].lines, 1, i - 1)
                          \o SubSeq(planFile[p].lines, i + 1, Len(planFile[p].lines)))

\* The environment writes the plan again with the content it has.
PlanRewriteSame(p) ==
    /\ planFile[p].exists
    /\ PlanWritten(p, planFile[p].lines)

InitPlan ==
    /\ planFile = [p \in ProjectIds |-> [exists |-> FALSE, lines |-> << >>]]
    /\ plan_snapshots = [p \in ProjectIds |-> None]
    /\ planReads = [p \in ProjectIds |-> 0]
    /\ planRepeat = [p \in ProjectIds |-> FALSE]

\* ------------------------------------------------------------ notifications

\* A JSON value of the "iteration" member: absent, an integer, a string of
\* digits, another string.
JsonAbsent == [type |-> "absent", n |-> 0]
JsonInt(n) == [type |-> "int", n |-> n]
JsonDigits(n) == [type |-> "digits", n |-> n]
JsonWord == [type |-> "word", n |-> 0]

\* The texts of messages, as their tokens.
UpperWords == {"DONE", "ERROR"}
MessageTexts == { << "ok" >>, << "DONE", ":", "ok" >>, << "done", ":", "ok" >> }

\* The contents of pending-notification.txt: empty, JSON that is no object,
\* a JSON object, free text.
EmptyContent ==
    [form |-> "empty", timestamp |-> "", message |-> << >>, prefix |-> "",
     iteration |-> JsonAbsent, details |-> ""]
NonObjectContent == [EmptyContent EXCEPT !.form = "json_other"]
JsonContent(timestamp, message, prefix, iteration, details) ==
    [form |-> "json_object", timestamp |-> timestamp, message |-> message,
     prefix |-> prefix, iteration |-> iteration, details |-> details]
TextContent(message) == [EmptyContent EXCEPT !.form = "text", !.message = message]

NotifContents ==
    { EmptyContent, NonObjectContent,
      JsonContent("t1", << "DONE", ":", "ok" >>, "", JsonInt(1), "d1"),
      JsonContent("t1", << "DONE", ":", "ok" >>, "", JsonDigits(1), "d2"),
      JsonContent("", << "ok" >>, "WARN", JsonWord, ""),
      TextContent(<< "DONE", ":", "ok" >>),
      TextContent(<< "done", ":", "ok" >>) }

\* _fallback_timestamp: the modification time of the file, as a time stamp.
FallbackTimestamp(mtime) == [text |-> "", mtime |-> mtime]

\* A time stamp given as text in the payload.
PayloadTimestamp(text) == [text |-> text, mtime |-> 0]

\* _parse_message: a prefix of capitals and underscores before a colon and a
\* body is split off.
ParseMessage(raw) ==
    IF Len(raw) >= 3 /\ raw[1] \in UpperWords /\ raw[2] = ":"
    THEN [prefix |-> Some(raw[1]), message |-> SubSeq(raw, 3, Len(raw))]
    ELSE [prefix |-> None, message |-> raw]

\* _coerce_int
CoerceInt(value) ==
    IF value.type \in {"int", "digits"} THEN Some(value.n) ELSE None

\* _entry_from_payload
EntryFromPayload(payload, mtime) ==
    LET parsed == ParseMessage(payload.message)
    IN [timestamp |-> IF payload.timestamp # "" THEN PayloadTimestamp(payload.timestamp)
                      ELSE FallbackTimestamp(mtime),
        prefix |-> IF payload.prefix # "" THEN Some(payload.prefix) ELSE parsed.prefix,
        message |-> parsed.message,
        status |-> None,
        iteration |-> CoerceInt(payload.iteration),
        details |-> IF payload.details # "" THEN Some(payload.details) ELSE None]

\* parse_notification_file: None, or the entry.
ParseNotificationFile(file) ==
    IF ~file.exists \/ file.content.form \in {"empty", "json_other"} THEN None
    ELSE IF file.content.form = "text"
    THEN LET parsed == ParseMessage(file.content.message)
         IN Some([timestamp |-> FallbackTimestamp(file.mtime),
                  prefix |-> parsed.prefix,
                  message |-> parsed.message,
                  status |-> Some("unknown"),
                  iteration |-> None,
                  details |-> None])
    ELSE Some(EntryFromPayload(file.content, file.mtime))

\* The key of _handle_notification_change (line 259).
NotificationKey(entry) ==
    << entry.timestamp, entry.message, entry.prefix, entry.iteration >>

\* The guard of line 260.
NotificationKeySeen(stored, key) == stored = Some(key)

\* The run of equal contents after a dispatch that read `file` and emitted
\* `emitted` events.
NotifRunAfter(run, file, emitted) ==
    IF file.exists /\ run.content = Some(file.content)
    THEN [run EXCEPT !.dispatches = Min(@ + 1, 2), !.emitted = Min(@ + emitted, 2)]
    ELSE [content |-> IF file.exists THEN Some(file.content) ELSE None,
          dispatches |-> 1,
          emitted |-> emitted,
          fresh |-> run.fresh /\ run.emitted = 0]

\* handle_change for .ralph/pending-notification.txt
NotifDispatch(p) ==
    LET entry == ParseNotificationFile(notifFile[p])
    IN /\ UNCHANGED << notifFile, envWrites >>
       /\ IF IsNone(entry)
          THEN /\ UNCHANGED << events, last_notification_keys >>
               /\ notifRun' = [notifRun EXCEPT ![p] = NotifRunAfter(@, notifFile[p], 0)]
          ELSE LET key == NotificationKey(Get(entry))
               IN IF NotificationKeySeen(last_notification_keys[p], key)
                  THEN /\ UNCHANGED << events, last_notification_keys >>
                       /\ notifRun' = [notifRun EXCEPT ![p] = NotifRunAfter(@, notifFile[p], 0)]
                  ELSE /\ last_notification_keys' =
                              [last_notification_keys EXCEPT ![p] = Some(key)]
                       /\ events' = Emit(events, "notification", p,
                                         [prefix |-> Get(entry).prefix,
                                          message |-> Get(entry).message,
                                          iteration |-> Get(entry).iteration,
                                          details |-> Get(entry).details,
                                          status |-> Get(entry).status])
                       /\ notifRun' = [notifRun EXCEPT ![p] = NotifRunAfter(@, notifFile[p], 1)]

\* The environment (the loop script) writes the pending notification; the
\* modification time is the time of the write.
NotifWrite(p, content) ==
    /\ envWrites < MaxEnvWrites
    /\ envWrites' = envWrites + 1
    /\ notifFile' = [notifFile EXCEPT ![p] =
          [exists |-> TRUE, content |-> content, mtime |-> envWrites + 1]]
    /\ UNCHANGED << events, last_notification_keys, notifRun >>

\* The environment removes the pending notification.
NotifRemove(p) ==
    /\ envWrites < MaxEnvWrites
    /\ envWrites' = envWrites + 1
    /\ notifFile[p].exists
    /\ notifFile' = [notifFile EXCEPT ![p] =
          [exists |-> FALSE, content |-> EmptyContent, mtime |-> 0]]
    /\ UNCHANGED << events, last_notification_keys, notifRun >>

InitNotif ==
    /\ notifFile = [p \in ProjectIds |-> [exists |-> FALSE, content |-> EmptyContent, mtime |-> 0]]
    /\ last_notification_keys = [p \in ProjectIds |-> None]
    /\ notifRun = [p \in ProjectIds |->
          [content |-> None, dispatches |-> 0, emitted |-> 0, fresh |-> TRUE]]

\* ------------------------------------------------------------ file watcher

\* The watched files of the one project watched here.
WatchFiles == {"ralph.log", "iterations.jsonl"}

\* time.monotonic() when the service starts: the clock counts from boot, so
\* it is past the debounce window.
ClockStart == DEBOUNCE_TICKS

\* A handler without debounce.
NeverWithinDebounce(now, last) == FALSE

\* now - last < _DEBOUNCE_SECONDS (lines 107, 196)
WithinDebounce(now, last) == now - last < DEBOUNCE_TICKS

\* The environment writes a watched file; the file system notifies the
\* observer.
WatchWrite(f) ==
    /\ SumOver(fileVer, WatchFiles) < MaxWatchWrites
    /\ fileVer' = [fileVer EXCEPT ![f] = @ + 1]
    /\ fsEvents' = Append(fsEvents, f)
    /\ UNCHANGED << events, clock, last_event_times, scheduledPuts, queue, last_handled, seenVer,
                    dequeued, handledLog, notifyLog >>

\* _ProjectEventHandler.on_any_event for the oldest notification.
OnAnyEvent ==
    /\ fsEvents # << >>
    /\ fsEvents' = Tail(fsEvents)
    /\ LET f == Head(fsEvents)
       IN IF WithinDebounce(clock, last_event_times[f])
          THEN UNCHANGED << last_event_times, scheduledPuts >>
          ELSE /\ last_event_times' = [last_event_times EXCEPT ![f] = clock]
               /\ IF Len(queue) >= MAX_QUEUE_SIZE
                  THEN UNCHANGED scheduledPuts
                  ELSE scheduledPuts' = Append(scheduledPuts, f)
    /\ notifyLog' = Append(notifyLog,
                           [path |-> Head(fsEvents), at |-> clock,
                            full |-> Len(queue) >= MAX_QUEUE_SIZE,
                            queued |-> scheduledPuts' # scheduledPuts])
    /\ UNCHANGED << events, clock, queue, last_handled, fileVer, seenVer, dequeued, handledLog >>

\* The event loop runs the oldest scheduled queue.put_nowait.
LoopPut ==
    /\ scheduledPuts # << >>
    /\ scheduledPuts' = Tail(scheduledPuts)
    /\ queue' = Append(queue, Head(scheduledPuts))
    /\ UNCHANGED << events, clock, fsEvents, last_event_times, last_handled, fileVer, seenVer,
                    dequeued, handledLog, notifyLog >>

\* The number of queued events one handled event drains (lines 200-207).
Drained(rest) == Min(Len(rest), DRAIN_LIMIT)

\* One round of the loop of _consume_events: get, the consumer's debounce,
\* the drain, on_change. ok: on_change returned without an exception; an
\* exception is swallowed (line 209).
ConsumeEvent(ok) ==
    /\ queue # << >>
    /\ LET f == Head(queue)
           rest == Tail(queue)
       IN IF WithinDebounce(clock, last_handled[f])
          THEN /\ queue' = rest
               /\ dequeued' = dequeued + 1
               /\ UNCHANGED << last_handled, seenVer, handledLog >>
          ELSE /\ last_handled' = [last_handled EXCEPT ![f] = clock]
               /\ queue' = Drop(rest, Drained(rest))
               /\ dequeued' = dequeued + 1 + Drained(rest)
               /\ handledLog' = Append(handledLog,
                                       [path |-> f, index |-> dequeued + 1, ok |-> ok])
               /\ seenVer' = [seenVer EXCEPT ![f] = fileVer[f]]
    /\ UNCHANGED << events, clock, fsEvents, last_event_times, scheduledPuts, fileVer, notifyLog >>

\* Time passes.
Tick ==
    /\ clock < ClockStart + MaxTicks
    /\ clock' = clock + 1
    /\ UNCHANGED << events, fsEvents, last_event_times, scheduledPuts, queue, last_handled,
                    fileVer, seenVer, dequeued, handledLog, notifyLog >>

InitWatch ==
    /\ clock = ClockStart
    /\ fsEvents = << >>
    /\ last_event_times = [f \in WatchFiles |-> 0]
    /\ scheduledPuts = << >>
    /\ queue = << >>
    /\ last_handled = [f \in WatchFiles |-> 0]
    /\ fileVer = [f \in WatchFiles |-> 0]
    /\ seenVer = [f \in WatchFiles |-> 0]
    /\ dequeued = 0
    /\ handledLog = << >>
    /\ notifyLog = << >>

\* --------------------------------------------------------- websocket hub

\* The websockets.
Sockets == {"w1", "w2"}

\* A hub that sends every broadcast to every connection.
SelectEveryone(project) == connections

\* The targets of a broadcast (lines 64-71): every connection, or those
\* whose subscriptions, if any, contain the project.
SelectTargets(project) ==
    IF IsNone(project) THEN connections
    ELSE { w \in connections :
             Get(project) \in (IF w \in DOMAIN subscriptions THEN subscriptions[w] ELSE {}) }

\* A function without the key w.
Without(f, w) == [k \in DOMAIN f \ {w} |-> f[k]]

\* disconnect, on the registry and on the subscription map.
ConnectionsAfterDisconnect(conns, w) == conns \ {w}
SubscriptionsAfterDisconnect(subs, w) == Without(subs, w)

\* connect: accept, then register with no subscriptions.
HubConnect(w) ==
    /\ sockState[w] = "new"
    /\ sockState' = [sockState EXCEPT ![w] = "open"]
    /\ connections' = connections \cup {w}
    /\ subscriptions' = [k \in DOMAIN subscriptions \cup {w} |->
                           IF k = w THEN {} ELSE subscriptions[k]]
    /\ UNCHANGED broadcasts

\* disconnect, called by the endpoint when the client goes away.
HubDisconnect(w) ==
    /\ sockState[w] # "new"
    /\ connections' = ConnectionsAfterDisconnect(connections, w)
    /\ subscriptions' = SubscriptionsAfterDisconnect(subscriptions, w)
    /\ UNCHANGED << sockState, broadcasts >>

\* subscribe: ignored for a websocket that is not registered.
HubSubscribe(w, projects) ==
    /\ sockState[w] # "new"
    /\ IF w \notin connections
       THEN UNCHANGED subscriptions
       ELSE subscriptions' =
               [k \in DOMAIN subscriptions \cup {w} |->
                   IF k = w
                   THEN (IF w \in DOMAIN subscriptions THEN subscriptions[w] ELSE {}) \cup projects
                   ELSE subscriptions[k]]
    /\ UNCHANGED << sockState, connections, broadcasts >>

\* unsubscribe: ignored for a websocket that is not registered.
HubUnsubscribe(w, projects) ==
    /\ sockState[w] # "new"
    /\ IF w \notin connections
       THEN UNCHANGED subscriptions
       ELSE subscriptions' =
               [k \in DOMAIN subscriptions \cup {w} |->
                   IF k = w
                   THEN (IF w \in DOMAIN subscriptions THEN subscriptions[w] ELSE {}) \ projects
                   ELSE subscriptions[k]]
    /\ UNCHANGED << sockState, connections, broadcasts >>

\* The network of a websocket fails: from now on send_json raises.
SocketBreaks(w) ==
    /\ sockState[w] = "open"
    /\ sockState' = [sockState EXCEPT ![w] = "broken"]
    /\ UNCHANGED << connections, subscriptions, broadcasts >>

\* Those the claim names as recipients: the registered connections
\* subscribed to the project; everyone registered without a project.
Subscribers(project) ==
    { w \in connections :
        IsNone(project) \/ (w \in DOMAIN subscriptions /\ Get(project) \in subscriptions[w]) }

\* The connections whose send failed in a broadcast that has ended.
FailedBefore ==
    UNION { broadcasts[b].failed : b \in { k \in 1..Len(broadcasts) : broadcasts[k].ended } }

\* broadcast, up to the release of the lock: the targets are selected.
BroadcastBegin(project) ==
    /\ Len(broadcasts) < MaxBroadcasts
    /\ broadcasts' = Append(broadcasts,
          [project |-> project,
           remaining |-> SelectTargets(project),
           eligible |-> Subscribers(project),
           sent |-> {}, failed |-> {},
           barred |-> FailedBefore, ended |-> FALSE])
    /\ UNCHANGED << sockState, connections, subscriptions >>

\* broadcast, one round of the loop of lines 74-78: send_json to a target.
BroadcastSend(b, w) ==
    /\ b \in 1..Len(broadcasts)
    /\ w \in broadcasts[b].remaining
    /\ broadcasts' = [broadcasts EXCEPT ![b] =
          IF sockState[w] = "open"
          THEN [@ EXCEPT !.remaining = @ \ {w}, !.sent = @ \cup {w}]
          ELSE [@ EXCEPT !.remaining = @ \ {w}, !.failed = @ \cup {w}]]
    /\ UNCHANGED << sockState, connections, subscriptions >>

\* A hub that keeps the connections whose send failed.
ConnectionsKept(failed) == connections

\* The registry and the subscription map after the loop of lines 80-81.
ConnectionsAfterFailures(failed) == connections \ failed
SubscriptionsAfterFailures(failed) ==
    [k \in DOMAIN subscriptions \ failed |-> subscriptions[k]]

\* broadcast, its end: the connections whose send failed are disconnected.
BroadcastEnd(b) ==
    /\ b \in 1..Len(broadcasts)
    /\ broadcasts[b].remaining = {}
    /\ ~broadcasts[b].ended
    /\ broadcasts' = [broadcasts EXCEPT ![b].ended = TRUE]
    /\ connections' = ConnectionsAfterFailures(broadcasts[b].failed)
    /\ subscriptions' = SubscriptionsAfterFailures(broadcasts[b].failed)
    /\ UNCHANGED sockState

InitHub ==
    /\ sockState = [w \in Sockets |-> "new"]
    /\ connections = {}
    /\ subscriptions = << >>
    /\ broadcasts = << >>

\* ------------------------------------------------------ process supervisor

\* The PIDs of the processes start can launch.
Pids == {1, 2}

NoProc == [state |-> "none", foreign |-> FALSE, comm |-> << >>]
NoPidFile == [exists |-> FALSE, valid |-> FALSE, pid |-> 0]

\* The command names of the loop: the script, or a command given to start.
LoopComms == { << "(ralph.sh)" >>, << "(ralph", "loop)" >> }

\* The process a PID names.
ProcOf(pid) == IF pid \in Pids THEN procTable[pid] ELSE NoProc

\* _is_pid_running on the PID of a PID file.
PidRunning(table, pid) == IsProcessAlive(IF pid \in Pids THEN table[pid] ELSE NoProc)

\* is_project_running, on a PID file and a process table.
IsProjectRunning(file, table) ==
    /\ ~IsNone(ReadPid(file))
    /\ PidRunning(table, Get(ReadPid(file)))

\* The record of a call that returned: its result (ok, pid, error), and for
\* stop whether the recorded PID named a running process when it began.
Returned(op, p, ok, pid, error, live) ==
    [op |-> op, project |-> p, ok |-> ok, pid |-> pid, error |-> error, live |-> live]

\* What the PID file of start_project_process is after lines 100-104.
PidFileAfterStart(file) ==
    IF ~IsNone(ReadPid(file)) THEN NoPidFile ELSE file

\* start_project_process: ProcessAlreadyRunningError for a PID file that
\* names a running process; else a stale PID file is removed and the command
\* is launched in a session of its own. The PID file is left to the script.
StartProjectProcess(p, pid, comm, traps) ==
    /\ callCount < MaxCalls
    /\ callCount' = callCount + 1
    /\ IF IsProjectRunning(pidFile[p], procTable)
       THEN /\ lastCall' = Returned("start", p, FALSE, 0, "ProcessAlreadyRunningError", FALSE)
            /\ UNCHANGED << pidFile, procTable, procTraits >>
       ELSE /\ pid \in Pids
            /\ procTable[pid].state = "none"
            /\ \A q \in Pids : q < pid => procTraits[q].launched
            /\ ~procTraits[pid].launched
            /\ pidFile' = [pidFile EXCEPT ![p] = PidFileAfterStart(@)]
            /\ procTable' = [procTable EXCEPT ![pid] =
                  [state |-> "running", foreign |-> FALSE, comm |-> comm]]
            /\ procTraits' = [procTraits EXCEPT ![pid] =
                  [launched |-> TRUE, project |-> p, traps |-> traps, child |-> "none"]]
            /\ lastCall' = Returned("start", p, TRUE, pid, "", FALSE)
    /\ UNCHANGED << events, loopProc, pauseFile, statuses, statusQuiet, envWrites,
                    stopCall, signalLog >>

\* What is left to the environment in a control step.
CtlEnvFrame ==
    UNCHANGED << events, loopProc, pauseFile, statuses, statusQuiet, envWrites,
                 stopCall, signalLog, callCount, lastCall >>

\* The loop script records its PID on startup; a script that finds the PID
\* of another running process in the file exits instead.
ScriptRecordsPid(pid) ==
    /\ procTable[pid].state = "running"
    /\ ~procTable[pid].foreign
    /\ LET p == procTraits[pid].project
       IN /\ pidFile[p] # [exists |-> TRUE, valid |-> TRUE, pid |-> pid]
          /\ IF IsProjectRunning(pidFile[p], procTable)
             THEN /\ procTable' = [procTable EXCEPT ![pid].state = "zombie"]
                  /\ UNCHANGED pidFile
             ELSE /\ pidFile' = [pidFile EXCEPT ![p] =
                        [exists |-> TRUE, valid |-> TRUE, pid |-> pid]]
                  /\ UNCHANGED procTable
    /\ UNCHANGED procTraits
    /\ CtlEnvFrame

\* The PID file comes to hold text that is no integer.
PidFileGarbled(p) ==
    /\ pidFile[p] # [exists |-> TRUE, valid |-> FALSE, pid |-> 0]
    /\ pidFile' = [pidFile EXCEPT ![p] = [exists |-> TRUE, valid |-> FALSE, pid |-> 0]]
    /\ UNCHANGED << procTable, procTraits >>
    /\ CtlEnvFrame

\* A launched process exits; nobody waits for it, so it stays a zombie.
ProcExits(pid) ==
    /\ procTable[pid].state = "running"
    /\ procTable' = [procTable EXCEPT ![pid].state = "zombie"]
    /\ UNCHANGED << pidFile, procTraits >>
    /\ CtlEnvFrame

\* A zombie is reaped.
ProcReaped(pid) ==
    /\ procTable[pid].state = "zombie"
    /\ procTable' = [procTable EXCEPT ![pid].state = "none"]
    /\ UNCHANGED << pidFile, procTraits >>
    /\ CtlEnvFrame

\* The PID of a loop that was reaped is given to a process of another user.
PidReused(pid) ==
    /\ procTable[pid].state = "none"
    /\ procTraits[pid].launched
    /\ procTable' = [procTable EXCEPT ![pid] =
          [state |-> "running", foreign |-> TRUE, comm |-> << "(sshd)" >>]]
    /\ UNCHANGED << pidFile, procTraits >>
    /\ CtlEnvFrame

\* The loop starts a child (a coding agent, a test runner) in its group.
ChildSpawns(pid, kind) ==
    /\ procTable[pid].state = "running"
    /\ ~procTable[pid].foreign
    /\ procTraits[pid].child = "none"
    /\ procTraits' = [procTraits EXCEPT ![pid].child = kind]
    /\ UNCHANGED << pidFile, procTable >>
    /\ CtlEnvFrame

\* The child of a loop exits.
ChildExits(pid) ==
    /\ procTraits[pid].child # "none"
    /\ procTraits' = [procTraits EXCEPT ![pid].child = "none"]
    /\ UNCHANGED << pidFile, procTable >>
    /\ CtlEnvFrame

\* os.killpg(pgid, SIGTERM): the leader exits unless it traps the signal,
\* an obedient child exits, a stubborn one ignores it.
TableAfterTerm(pid) ==
    IF pid \in Pids /\ procTable[pid].state = "running" /\ ~procTraits[pid].traps
    THEN [procTable EXCEPT ![pid].state = "zombie"]
    ELSE procTable
TraitsAfterTerm(pid) ==
    IF pid \in Pids /\ procTraits[pid].child = "obedient"
    THEN [procTraits EXCEPT ![pid].child = "none"]
    ELSE procTraits

\* os.killpg(pgid, SIGKILL): every process of the group dies.
TableAfterKill(pid) ==
    IF pid \in Pids /\ procTable[pid].state = "running"
    THEN [procTable EXCEPT ![pid].state = "zombie"]
    ELSE procTable
TraitsAfterKill(pid) ==
    IF pid \in Pids THEN [procTraits EXCEPT ![pid].child = "none"] ELSE procTraits

\* The error classes of the supervisor: ProcessManagerError and its subclasses.
ProcessManagerErrors ==
    { "ProcessManagerError", "ProcessProjectNotFoundError", "ProcessAlreadyRunningError",
      "ProcessCommandNotFoundError", "ProcessInjectionValidationError",
      "ProcessConfigParseError", "ProcessConfigValidationError" }

\* What os.killpg and then os.kill raise out of stop_project_process for a
\* PID: PermissionError for a process of another user, else nothing
\* (ProcessLookupError is caught).
KillRaises(pid) == IF ProcOf(pid).foreign THEN "PermissionError" ELSE ""

\* A signal of stop, with what the history says of it: the call that sent
\* it, and whether the leader had exited by then.
Signal(sig, pid, call) ==
    [sig |-> sig, pid |-> pid, call |-> call, exited |-> ProcOf(pid).state # "running"]

\* The result of _async_wait_for_exit when the grace period is over, or
\* before as soon as it is true: the PID is not running.
WaitForExit(table, pid) == ~PidRunning(table, pid)

\* stop_project_process up to its first wait (lines 277-301).
StopBegin(p) ==
    /\ callCount < MaxCalls
    /\ callCount' = callCount + 1
    /\ IsNone(stopCall[p])
    /\ LET pid == ReadPid(pidFile[p])
       IN IF IsNone(pid)
          THEN /\ lastCall' = Returned("stop", p, FALSE, 0, "", FALSE)
               /\ UNCHANGED << pidFile, procTable, procTraits, stopCall, signalLog >>
          ELSE IF ~PidRunning(procTable, Get(pid))
          THEN /\ pidFile' = [pidFile EXCEPT ![p] = NoPidFile]
               /\ lastCall' = Returned("stop", p, FALSE, Get(pid), "", FALSE)
               /\ UNCHANGED << procTable, procTraits, stopCall, signalLog >>
          ELSE IF KillRaises(Get(pid)) # ""
          THEN /\ lastCall' = Returned("stop", p, FALSE, Get(pid), KillRaises(Get(pid)), TRUE)
               /\ UNCHANGED << pidFile, procTable, procTraits, stopCall, signalLog >>
          ELSE /\ signalLog' = [signalLog EXCEPT ![p] =
                     Append(@, Signal("SIGTERM", Get(pid), callCount + 1))]
               /\ procTable' = TableAfterTerm(Get(pid))
               /\ procTraits' = TraitsAfterTerm(Get(pid))
               /\ stopCall' = [stopCall EXCEPT ![p] =
                     Some([pid |-> Get(pid), phase |-> "grace", call |-> callCount + 1,
                           live |-> ProcOf(Get(pid)).state = "running"])]
               /\ UNCHANGED << pidFile, lastCall >>
    /\ UNCHANGED << events, loopProc, pauseFile, statuses, statusQuiet, envWrites >>

\* stop_project_process when its first wait returns (lines 301-311): the
\* PID file is removed and true returned, or SIGKILL sent to the group.
StopGraceOver(p) ==
    /\ ~IsNone(stopCall[p])
    /\ Get(stopCall[p]).phase = "grace"
    /\ LET call == Get(stopCall[p])
       IN IF WaitForExit(procTable, call.pid)
          THEN /\ pidFile' = [pidFile EXCEPT ![p] = NoPidFile]
               /\ lastCall' = Returned("stop", p, TRUE, call.pid, "", call.live)
               /\ stopCall' = [stopCall EXCEPT ![p] = None]
               /\ UNCHANGED << procTable, procTraits, signalLog >>
          ELSE IF KillRaises(call.pid) # ""
          THEN /\ lastCall' = Returned("stop", p, FALSE, call.pid, KillRaises(call.pid), call.live)
               /\ stopCall' = [stopCall EXCEPT ![p] = None]
               /\ UNCHANGED << pidFile, procTable, procTraits, signalLog >>
          ELSE /\ signalLog' = [signalLog EXCEPT ![p] =
                     Append(@, Signal("SIGKILL", call.pid, call.call))]
               /\ procTable' = TableAfterKill(call.pid)
               /\ procTraits' = TraitsAfterKill(call.pid)
               /\ stopCall' = [stopCall EXCEPT ![p] = Some([call EXCEPT !.phase = "killwait"])]
               /\ UNCHANGED << pidFile, lastCall >>
    /\ UNCHANGED << events, loopProc, pauseFile, statuses, statusQuiet, envWrites, callCount >>

\* stop_project_process after the wait that follows SIGKILL (lines 311-314).
StopKillWaitOver(p) ==
    /\ ~IsNone(stopCall[p])
    /\ Get(stopCall[p]).phase = "killwait"
    /\ pidFile' = [pidFile EXCEPT ![p] = NoPidFile]
    /\ lastCall' = Returned("stop", p, TRUE, Get(stopCall[p]).pid, "", Get(stopCall[p]).live)
    /\ stopCall' = [stopCall EXCEPT ![p] = None]
    /\ UNCHANGED << events, loopProc, pauseFile, statuses, statusQuiet, envWrites, callCount,
                    procTable, procTraits, signalLog >>

\* A pause that always reports a change.
PauseAlwaysNew(already_paused) == TRUE

\* The result of pause_project_process (line 135).
PauseResult(already_paused) == ~already_paused

\* pause_project_process
PauseProjectProcess(p) ==
    /\ callCount < MaxCalls
    /\ callCount' = callCount + 1
    /\ pauseFile' = [pauseFile EXCEPT ![p] = TRUE]
    /\ lastCall' = Returned("pause", p, PauseResult(pauseFile[p]), 0, "", FALSE)
    /\ UNCHANGED << events, loopProc, pidFile, statuses, statusQuiet, envWrites,
                    procTable, procTraits, stopCall, signalLog >>

\* resume_project_process
ResumeProjectProcess(p) ==
    /\ callCount < MaxCalls
    /\ callCount' = callCount + 1
    /\ IF ~pauseFile[p]
       THEN /\ lastCall' = Returned("resume", p, FALSE, 0, "", FALSE)
            /\ UNCHANGED pauseFile
       ELSE /\ pauseFile' = [pauseFile EXCEPT ![p] = FALSE]
            /\ lastCall' = Returned("resume", p, TRUE, 0, "", FALSE)
    /\ UNCHANGED << events, loopProc, pidFile, statuses, statusQuiet, envWrites,
                    procTable, procTraits, stopCall, signalLog >>

InitCtl ==
    /\ procTable = [pid \in Pids |-> NoProc]
    /\ procTraits = [pid \in Pids |->
          [launched |-> FALSE, project |-> "", traps |-> FALSE, child |-> "none"]]
    /\ stopCall = [p \in ProjectIds |-> None]
    /\ signalLog = [p \in ProjectIds |-> << >>]
    /\ callCount = 0
    /\ lastCall = Returned("none", "", FALSE, 0, "", FALSE)

\* ---------------------------------------------------------- injected messages

CR == "\r"
\* The characters of a message, and the messages a caller passes.
MsgChars == {"a", " ", NL, CR}
Messages == UNION { [1..n -> MsgChars] : n \in 0..MaxMsgLen }

\* str.isspace
IsSpace(c) == c \in {" ", NL, CR}

\* str.rstrip, str.lstrip, str.strip
RECURSIVE RStrip(_)
RStrip(s) ==
    IF s # << >> /\ IsSpace(s[Len(s)]) THEN RStrip(SubSeq(s, 1, Len(s) - 1)) ELSE s
RECURSIVE LStrip(_)
LStrip(s) ==
    IF s # << >> /\ IsSpace(s[1]) THEN LStrip(Tail(s)) ELSE s
Strip(s) == RStrip(LStrip(s))

\* Path.read_text: the text of the bytes, every "\r\n" and every lone "\r"
\* read as "\n" (universal newlines).
RECURSIVE ReadText(_)
ReadText(bytes) ==
    IF bytes = << >> THEN << >>
    ELSE IF bytes[1] = CR
    THEN IF Len(bytes) >= 2 /\ bytes[2] = NL
         THEN << NL >> \o ReadText(SubSeq(bytes, 3, Len(bytes)))
         ELSE << NL >> \o ReadText(Tail(bytes))
    ELSE << bytes[1] >> \o ReadText(Tail(bytes))

\* Path.write_text: every "\n" written as os.linesep.
LineSep == << NL >>
RECURSIVE WriteText(_)
WriteText(text) ==
    IF text = << >> THEN << >>
    ELSE (IF text[1] = NL THEN LineSep ELSE << text[1] >>) \o WriteText(Tail(text))

\* The payload of inject_project_message for stripped content (lines 158-162).
InjectPayload(file, content) ==
    IF ~IsNone(file) /\ RStrip(ReadText(Get(file))) # << >>
    THEN RStrip(ReadText(Get(file))) \o << NL, NL >> \o content \o << NL >>
    ELSE content \o << NL >>

\* inject_project_message
InjectProjectMessage(p, message) ==
    /\ injectCalls < MaxInjects
    /\ injectCalls' = injectCalls + 1
    /\ LET content == Strip(message)
       IN IF content = << >>
          THEN /\ lastInject' = [project |-> p, ok |-> FALSE, payload |-> << >>,
                                 before |-> injectFile[p]]
               /\ UNCHANGED << injectFile, injected >>
          ELSE /\ injectFile' = [injectFile EXCEPT ![p] =
                                    Some(WriteText(InjectPayload(@, content)))]
               /\ injected' = [injected EXCEPT ![p] = Append(@, content)]
               /\ lastInject' = [project |-> p, ok |-> TRUE,
                                 payload |-> InjectPayload(injectFile[p], content),
                                 before |-> injectFile[p]]

\* The loop takes the injected text into its next iteration and removes the file.
InjectConsumed(p) ==
    /\ ~IsNone(injectFile[p])
    /\ injectFile' = [injectFile EXCEPT ![p] = None]
    /\ injected' = [injected EXCEPT ![p] = << >>]
    /\ UNCHANGED << injectCalls, lastInject >>

InitInject ==
    /\ injectFile = [p \in ProjectIds |-> None]
    /\ injected = [p \in ProjectIds |-> << >>]
    /\ injectCalls = 0
    /\ lastInject = [project |-> "", ok |-> FALSE, payload |-> << >>, before |-> None]

\* ------------------------------------------------------------ watch service

RootStates == {"dir", "missing", "denied"}

\* _start_observer: whether the observer of a project comes to be registered.
StartObserver(p) ==
    /\ rootState[p] # "missing"
    /\ rootState[p] # "denied"

\* _stop_observer, for each stale id: the observers left.
StopObservers(obs, stale) == obs \ stale

\* The observers after refresh_projects for a desired set (lines 177-186).
ObserversAfterRefresh(desired) ==
    LET stale == { p \in observers : p \notin desired }
        kept == StopObservers(observers, stale)
    IN kept \cup { p \in desired \ kept : StartObserver(p) }

\* refresh_projects; desired is what discover_all_project_paths returns.
RefreshProjects(desired) ==
    /\ svcRunning
    /\ observers' = ObserversAfterRefresh(desired)
    /\ lastDesired' = desired
    /\ refreshTick' = ~refreshTick
    /\ UNCHANGED << svcRunning, rootState, queuedFor >>

\* FileWatcherService.start
ServiceStart(desired) ==
    /\ ~svcRunning
    /\ svcRunning' = TRUE
    /\ observers' = ObserversAfterRefresh(desired)
    /\ lastDesired' = desired
    /\ refreshTick' = ~refreshTick
    /\ UNCHANGED << rootState, queuedFor >>

\* FileWatcherService.stop: the consumer is cancelled with the queue as it is.
ServiceStop ==
    /\ svcRunning
    /\ svcRunning' = FALSE
    /\ observers' = {}
    /\ UNCHANGED << rootState, queuedFor, lastDesired, refreshTick >>

\* The environment: a root directory is removed, created, or changes its
\* permissions.
RootChange(p, state) ==
    /\ rootState[p] # state
    /\ rootState' = [rootState EXCEPT ![p] = state]
    /\ UNCHANGED << svcRunning, observers, queuedFor, lastDesired, refreshTick >>

\* The observer of a watched project queues a ChangeEvent for its PID file.
ObserverQueues(p) ==
    /\ svcRunning
    /\ p \in observers
    /\ rootState[p] = "dir"
    /\ p \notin queuedFor
    /\ queuedFor' = queuedFor \cup {p}
    /\ UNCHANGED << svcRunning, observers, rootState, lastDesired, refreshTick >>

\* The consumer hands a queued ChangeEvent to handle_change.
QueuedDispatch(p) ==
    /\ svcRunning
    /\ p \in queuedFor
    /\ queuedFor' = queuedFor \ {p}
    /\ StatusDispatch(p)
    /\ UNCHANGED << svcRunning, observers, rootState, lastDesired, refreshTick >>

InitRefresh ==
    /\ svcRunning = FALSE
    /\ observers = {}
    /\ rootState = [p \in ProjectIds |-> "dir"]
    /\ queuedFor = {}
    /\ lastDesired = {}
    /\ refreshTick = FALSE

\* ------------------------------------------------------- websocket endpoint

\* What a client presents as token: none, one that validate_access_token
\* rejects with InvalidTokenError, one it accepts.
Tokens == {"none", "bad", "good"}

\* validate_access_token returns without InvalidTokenError.
ValidateAccessToken(token) == token = "good"

\* The methods of WebSocketHub.
HubMethods == {"connect", "disconnect", "subscribe", "unsubscribe", "emit", "broadcast"}

WsAccept(w) == [sock |-> w, call |-> "accept", code |-> 0, reason |-> "", message |-> ""]
WsClose(w, code, reason) ==
    [sock |-> w, call |-> "close", code |-> code, reason |-> reason, message |-> ""]
WsSend(w, type, message) ==
    [sock |-> w, call |-> "send_json", code |-> 0, reason |-> type, message |-> message]

\* hub.register(websocket) of line 71, outside the try: the state of the
\* endpoint after it, and the connections of the hub.
StateAfterRegister == IF "register" \in HubMethods THEN "loop" ELSE "raised"
ConnectionsAfterRegister(w) ==
    IF "register" \in HubMethods THEN connections \cup {w} ELSE connections

\* websocket_endpoint up to its first receive_json (lines 31-47, or to
\* line 71 with a valid token in the query).
EndpointBegin(w, token) ==
    /\ epState[w] = "idle"
    /\ epToken' = [epToken EXCEPT ![w] = token]
    /\ IF token # "none" /\ ~ValidateAccessToken(token)
       THEN /\ wsLog' = Append(wsLog, WsClose(w, 1008, "Invalid access token"))
            /\ epState' = [epState EXCEPT ![w] = "returned"]
            /\ UNCHANGED connections
       ELSE IF token # "none"
       THEN /\ wsLog' = Append(wsLog, WsAccept(w))
            /\ epState' = [epState EXCEPT ![w] = StateAfterRegister]
            /\ connections' = ConnectionsAfterRegister(w)
       ELSE /\ wsLog' = Append(wsLog, WsAccept(w))
            /\ epState' = [epState EXCEPT ![w] = "awaitAuth"]
            /\ UNCHANGED connections
    /\ UNCHANGED << sockState, subscriptions, broadcasts >>

\* The first messages of a client: none (it disconnects), one that is no
\* auth message, an auth message with a token.
FirstMessages ==
    { [action |-> "disconnect", token |-> "none"],
      [action |-> "subscribe", token |-> "none"],
      [action |-> "auth", token |-> "none"],
      [action |-> "auth", token |-> "bad"],
      [action |-> "auth", token |-> "good"] }

\* websocket_endpoint from the first message to line 71 (lines 47-71).
EndpointFirstMessage(w, first) ==
    /\ epState[w] = "awaitAuth"
    /\ IF first.action = "disconnect"
       THEN /\ epState' = [epState EXCEPT ![w] = "gone"]
            /\ UNCHANGED << epToken, wsLog, connections >>
       ELSE IF first.action # "auth" \/ first.token = "none"
       THEN /\ wsLog' = wsLog \o << WsSend(w, "error", "First message must be auth"),
                                    WsClose(w, 1008, "Not authenticated") >>
            /\ epState' = [epState EXCEPT ![w] = "returned"]
            /\ UNCHANGED << epToken, connections >>
       ELSE IF ~ValidateAccessToken(first.token)
       THEN /\ wsLog' = wsLog \o << WsSend(w, "error", "Invalid access token"),
                                    WsClose(w, 1008, "Invalid access token") >>
            /\ epToken' = [epToken EXCEPT ![w] = first.token]
            /\ epState' = [epState EXCEPT ![w] = "returned"]
            /\ UNCHANGED connections
       ELSE /\ wsLog' = Append(wsLog, WsSend(w, "auth_ok", ""))
            /\ epToken' = [epToken EXCEPT ![w] = first.token]
            /\ epState' = [epState EXCEPT ![w] = StateAfterRegister]
            /\ connections' = ConnectionsAfterRegister(w)
    /\ UNCHANGED << sockState, subscriptions, broadcasts >>

InitEndpoint ==
    /\ epState = [w \in Sockets |-> "idle"]
    /\ epToken = [w \in Sockets |-> "none"]
    /\ wsLog = << >>

\* ----------------------------------------------------------- specifications

\* The projects the environment acts on in SpecStatus and SpecPlan.
ActiveProjects == {"p1"}

\* What a step of SpecStatus leaves alone.
StatusFrame ==
    UNCHANGED << logVars, ledgerVars, extVars, notifVars, watchVars, hubVars, ctlVars, plan_snapshots,
                 planReads, planRepeat >>

NextStatus ==
    \/ \E p \in ActiveProjects : \E valid \in BOOLEAN :
            PidWrite(p, valid) /\ UNCHANGED planFile /\ StatusFrame
    \/ \E p \in ActiveProjects : \E proc \in LoopProcs :
            ProcChange(p, proc) /\ UNCHANGED planFile /\ StatusFrame
    \/ \E p \in ActiveProjects : PauseToggle(p) /\ UNCHANGED planFile /\ StatusFrame
    \/ \E p \in ActiveProjects : \E text \in {"COMPLETE", "IN PROGRESS"} :
            /\ PlanAppendLine(p, StatusLine(text))
            /\ UNCHANGED << logVars, ledgerVars, extVars, notifVars, watchVars, hubVars, ctlVars, statusVars >>
    \/ \E p \in ActiveProjects : \E i \in 1..MaxPlanLines :
            /\ PlanRemoveLine(p, i)
            /\ UNCHANGED << logVars, ledgerVars, extVars, notifVars, watchVars, hubVars, ctlVars, statusVars >>
    \/ \E p \in ActiveProjects : StatusDispatch(p) /\ UNCHANGED planFile /\ StatusFrame

\* What a step of the plan's environment leaves alone.
PlanFrame == UNCHANGED << logVars, ledgerVars, extVars, notifVars, watchVars, hubVars, ctlVars, statusVars >>

NextPlan ==
    \/ \E p \in ActiveProjects : \E line \in PlanLines : PlanAppendLine(p, line) /\ PlanFrame
    \/ \E p \in ActiveProjects : \E i \in 1..MaxPlanLines : PlanToggleTask(p, i) /\ PlanFrame
    \/ \E p \in ActiveProjects : \E i \in 1..MaxPlanLines : PlanRemoveLine(p, i) /\ PlanFrame
    \/ \E p \in ActiveProjects : PlanRewriteSame(p) /\ PlanFrame
    \/ \E p \in ActiveProjects : PlanDispatch(p) /\ UNCHANGED << logVars, ledgerVars, extVars, notifVars, watchVars, hubVars, ctlVars >>

\* What a step of SpecNotif leaves alone.
NotifFrame ==
    UNCHANGED << logVars, ledgerVars, extVars, statusVars, planVars, watchVars, hubVars, ctlVars >>

NextNotif ==
    \/ \E p \in ActiveProjects : \E content \in NotifContents :
            NotifWrite(p, content) /\ NotifFrame
    \/ \E p \in ActiveProjects : NotifRemove(p) /\ NotifFrame
    \/ \E p \in ActiveProjects : NotifDispatch(p) /\ NotifFrame

\* What a step of SpecWatch leaves alone.
WatchFrame ==
    UNCHANGED << logVars, ledgerVars, extVars, statusVars, planVars, notifVars, hubVars, ctlVars,
                 envWrites >>

NextWatch ==
    \/ \E f \in WatchFiles : WatchWrite(f) /\ WatchFrame
    \/ OnAnyEvent /\ WatchFrame
    \/ LoopPut /\ WatchFrame
    \/ \E ok \in BOOLEAN : ConsumeEvent(ok) /\ WatchFrame
    \/ Tick /\ WatchFrame

\* What a step of SpecHub leaves alone.
HubFrame ==
    UNCHANGED << events, logVars, ledgerVars, extVars, statusVars, planVars, notifVars, watchVars,
                 ctlVars, envWrites >>

NextHub ==
    \/ \E w \in Sockets : HubConnect(w) /\ HubFrame
    \/ \E w \in Sockets : HubDisconnect(w) /\ HubFrame
    \/ \E w \in Sockets : \E p \in ActiveProjects : HubSubscribe(w, {p}) /\ HubFrame
    \/ \E w \in Sockets : \E p \in ActiveProjects : HubUnsubscribe(w, {p}) /\ HubFrame
    \/ \E w \in Sockets : SocketBreaks(w) /\ HubFrame
    \/ \E project \in {None} \cup {Some(p) : p \in ProjectIds} :
            BroadcastBegin(project) /\ HubFrame
    \/ \E b \in 1..MaxBroadcasts : \E w \in Sockets : BroadcastSend(b, w) /\ HubFrame
    \/ \E b \in 1..MaxBroadcasts : BroadcastEnd(b) /\ HubFrame

\* What a step of SpecControl leaves alone.
CtlFrame == UNCHANGED << logVars, ledgerVars, extVars, planVars, notifVars, watchVars, hubVars >>

NextControl ==
    \/ \E p \in ActiveProjects : \E pid \in Pids : \E comm \in LoopComms : \E traps \in BOOLEAN :
            StartProjectProcess(p, pid, comm, traps) /\ CtlFrame
    \/ \E p \in ActiveProjects : StopBegin(p) /\ CtlFrame
    \/ \E p \in ActiveProjects : StopGraceOver(p) /\ CtlFrame
    \/ \E p \in ActiveProjects : StopKillWaitOver(p) /\ CtlFrame
    \/ \E p \in ActiveProjects : PauseProjectProcess(p) /\ CtlFrame
    \/ \E p \in ActiveProjects : ResumeProjectProcess(p) /\ CtlFrame
    \/ \E pid \in Pids : ScriptRecordsPid(pid) /\ CtlFrame
    \/ \E pid \in Pids : ProcExits(pid) /\ CtlFrame
    \/ \E pid \in Pids : ProcReaped(pid) /\ CtlFrame
    \/ \E pid \in Pids : \E kind \in {"obedient", "stubborn"} : ChildSpawns(pid, kind) /\ CtlFrame
    \/ \E pid \in Pids : ChildExits(pid) /\ CtlFrame
    \/ \E p \in ActiveProjects : PidFileGarbled(p) /\ CtlFrame
    \/ \E pid \in Pids : PidReused(pid) /\ CtlFrame

Init ==
    /\ events = << >>
    /\ InitLog
    /\ InitLedger
    /\ InitStatus
    /\ InitPlan
    /\ InitNotif
    /\ InitWatch
    /\ InitHub
    /\ InitCtl
    /\ InitInject
    /\ InitRefresh
    /\ InitEndpoint
    /\ InitRace

\* What a step of SpecInject leaves alone.
InjectFrame ==
    UNCHANGED << events, logVars, ledgerVars, statusVars, planVars, notifVars, watchVars,
                 hubVars, ctlVars, envWrites, refreshVars, endpointVars, raceVars >>

NextInject ==
    \/ \E p \in ActiveProjects : \E message \in Messages :
            InjectProjectMessage(p, message) /\ InjectFrame
    \/ \E p \in ActiveProjects : InjectConsumed(p) /\ InjectFrame

\* What a step of the watch service leaves alone.
RefreshFrame ==
    UNCHANGED << events, logVars, ledgerVars, statusVars, planVars, notifVars, watchVars,
                 hubVars, ctlVars, envWrites, injVars, endpointVars, raceVars >>

NextRefresh ==
    \/ \E desired \in SUBSET ProjectIds : ServiceStart(desired) /\ RefreshFrame
    \/ \E desired \in SUBSET ProjectIds : RefreshProjects(desired) /\ RefreshFrame
    \/ ServiceStop /\ RefreshFrame
    \/ \E p \in ProjectIds : \E state \in RootStates : RootChange(p, state) /\ RefreshFrame
    \/ \E p \in ProjectIds : ObserverQueues(p) /\ RefreshFrame
    \/ \E p \in ProjectIds :
            /\ QueuedDispatch(p)
            /\ UNCHANGED << logVars, ledgerVars, planVars, notifVars, watchVars, hubVars,
                            ctlVars, injVars, endpointVars, raceVars >>

\* A watched project whose PID file or pause sentinel changes gets a
\* ChangeEvent in the queue.
QueuedAfterChange(p) == IF svcRunning /\ p \in observers THEN queuedFor \cup {p} ELSE queuedFor

\* What a step of SpecReconcile leaves alone.
ReconcileFrame ==
    UNCHANGED << logVars, ledgerVars, planVars, notifVars, watchVars, hubVars, ctlVars,
                 injVars, endpointVars, raceVars >>

\* The service as app_lifespan runs it: started once, its consumer the only
\* caller of the dispatcher.
NextReconcile ==
    \/ /\ ServiceStart(ProjectIds)
       /\ UNCHANGED << events, statusVars, envWrites >>
       /\ ReconcileFrame
    \/ \E p \in ActiveProjects : \E valid \in BOOLEAN :
            /\ PidWrite(p, valid)
            /\ queuedFor' = QueuedAfterChange(p)
            /\ UNCHANGED << svcRunning, observers, rootState, lastDesired, refreshTick >>
            /\ ReconcileFrame
    \/ \E p \in ActiveProjects :
            /\ PauseToggle(p)
            /\ queuedFor' = QueuedAfterChange(p)
            /\ UNCHANGED << svcRunning, observers, rootState, lastDesired, refreshTick >>
            /\ ReconcileFrame
    \/ \E p \in ActiveProjects : \E proc \in LoopProcs :
            /\ ProcChange(p, proc)
            /\ UNCHANGED refreshVars
            /\ ReconcileFrame
    \/ \E p \in ActiveProjects : QueuedDispatch(p) /\ ReconcileFrame

\* Every queued ChangeEvent is dispatched in the end.
ReconcileFairness ==
    \A p \in ActiveProjects : WF_vars(QueuedDispatch(p) /\ ReconcileFrame)

\* detect_project_status once _is_running has returned `running`.
StatusGiven(p, running) ==
    IF running
    THEN IF pauseFile[p] THEN "paused" ELSE "running"
    ELSE IF IsPlanComplete(planFile[p]) THEN "complete" ELSE "stopped"

\* _is_running up to its decision: read_pid, pid_file.exists(),
\* is_process_alive (status.py lines 12-19), inside _emit_status_if_changed.
DetectRead(p) ==
    /\ IsNone(pidCheck)
    /\ pidCheck' = Some([project |-> p,
                         running |-> IsRunning(p).running,
                         unlinks |-> IsRunning(p).unlinks])
    /\ UNCHANGED << events, statusVars, envWrites >>

\* The rest of that evaluation: pid_file.unlink(missing_ok=True) if decided
\* (lines 16 and 21), the status, and the announcement if it changed.
DetectFinish(p) ==
    /\ ~IsNone(pidCheck)
    /\ Get(pidCheck).project = p
    /\ pidCheck' = None
    /\ LET current == StatusGiven(p, Get(pidCheck).running)
           previous == statuses[p]
       IN /\ pidFile' = [pidFile EXCEPT ![p] =
                            IF Get(pidCheck).unlinks
                            THEN [exists |-> FALSE, valid |-> FALSE, pid |-> 0]
                            ELSE @]
          /\ statusQuiet' = [statusQuiet EXCEPT ![p] = StatusUnchanged(previous, current)]
          /\ IF StatusUnchanged(previous, current)
             THEN UNCHANGED << events, statuses >>
             ELSE /\ statuses' = [statuses EXCEPT ![p] = Some(current)]
                  /\ events' = Emit(events, "status_changed", p,
                                    [status |-> current, previous |-> previous])
    /\ UNCHANGED << loopProc, pauseFile, envWrites >>

\* What a step of SpecPidRace leaves alone.
PidRaceFrame ==
    UNCHANGED << logVars, ledgerVars, planVars, notifVars, watchVars, hubVars, ctlVars,
                 injVars, refreshVars, endpointVars, lastDispatch, orderVars, regVars >>

\* Status evaluation in the dashboard process, the loop script writing its
\* PID file in another.
NextPidRace ==
    \/ \E p \in ActiveProjects : DetectRead(p) /\ PidRaceFrame
    \/ \E p \in ActiveProjects : DetectFinish(p) /\ PidRaceFrame
    \/ \E p \in ActiveProjects : \E valid \in BOOLEAN :
            PidWrite(p, valid) /\ UNCHANGED pidCheck /\ PidRaceFrame
    \/ \E p \in ActiveProjects : \E proc \in LoopProcs :
            ProcChange(p, proc) /\ UNCHANGED pidCheck /\ PidRaceFrame

\* What a step of SpecDispatch leaves alone.
DispatchFrame ==
    UNCHANGED << logVars, ledgerVars, notifVars, watchVars, hubVars, ctlVars,
                 injVars, refreshVars, endpointVars, pidCheck, orderVars, regVars >>

\* _dispatch on the plan file and on the PID file or the pause sentinel of
\* one project, with the environment that writes them.
NextDispatch ==
    \/ \E p \in ActiveProjects : \E valid \in BOOLEAN :
            PidWrite(p, valid) /\ UNCHANGED << planVars, lastDispatch >> /\ DispatchFrame
    \/ \E p \in ActiveProjects : \E proc \in LoopProcs :
            ProcChange(p, proc) /\ UNCHANGED << planVars, lastDispatch >> /\ DispatchFrame
    \/ \E p \in ActiveProjects :
            PauseToggle(p) /\ UNCHANGED << planVars, lastDispatch >> /\ DispatchFrame
    \/ \E p \in ActiveProjects : \E line \in PlanLines :
            /\ PlanAppendLine(p, line)
            /\ UNCHANGED << statusVars, lastDispatch >> /\ DispatchFrame
    \/ \E p \in ActiveProjects : \E i \in 1..MaxPlanLines :
            /\ PlanRemoveLine(p, i)
            /\ UNCHANGED << statusVars, lastDispatch >> /\ DispatchFrame
    \/ \E p \in ActiveProjects :
            PlanDispatch(p) /\ lastDispatch' = "plan" /\ DispatchFrame
    \/ \E p \in ActiveProjects :
            /\ StatusDispatch(p) /\ lastDispatch' = "status"
            /\ UNCHANGED planVars /\ DispatchFrame

\* A dispatcher that does not wait for hub.emit.
EmitNeverWaits(k) == TRUE

\* hub.emit is awaited by the dispatcher, which holds _dispatch_lock: the
\* broadcast of an event begins when those of the events before it have
\* returned.
EmitMayBegin(k) == \A j \in 1..(k - 1) : j <= Len(emits) /\ emits[j].ended

\* _dispatch_lock is free: every event of the dispatches so far has been
\* broadcast.
DispatchLockFree ==
    /\ Len(emits) = Len(events)
    /\ \A k \in 1..Len(emits) : emits[k].ended

\* broadcast for the next event, up to the release of the hub's lock.
EmitBegin ==
    /\ Len(emits) < Len(events)
    /\ EmitMayBegin(Len(emits) + 1)
    /\ emits' = Append(emits,
                       [remaining |-> SelectTargets(Some(events[Len(emits) + 1].project)),
                        failed |-> {}, ended |-> FALSE])
    /\ UNCHANGED << hubVars, received >>

\* One round of the loop of broadcast: send_json to a target.
EmitSend(k, w) ==
    /\ k \in 1..Len(emits)
    /\ w \in emits[k].remaining
    /\ IF sockState[w] = "open"
       THEN /\ emits' = [emits EXCEPT ![k].remaining = @ \ {w}]
            /\ received' = [received EXCEPT ![w] = Append(@, k)]
       ELSE /\ emits' = [emits EXCEPT ![k].remaining = @ \ {w}, ![k].failed = @ \cup {w}]
            /\ UNCHANGED received
    /\ UNCHANGED hubVars

\* The end of that broadcast: the failed connections are disconnected.
EmitEnd(k) ==
    /\ k \in 1..Len(emits)
    /\ emits[k].remaining = {}
    /\ ~emits[k].ended
    /\ emits' = [emits EXCEPT ![k].ended = TRUE]
    /\ connections' = ConnectionsAfterFailures(emits[k].failed)
    /\ subscriptions' = SubscriptionsAfterFailures(emits[k].failed)
    /\ UNCHANGED << sockState, broadcasts, received >>

\* The history of a websocket starts anew when it subscribes.
ReceivedAfterSubscribe(w, p) ==
    IF w \in SelectTargets(Some(p)) \/ w \notin connections
    THEN received
    ELSE [received EXCEPT ![w] = << >>]

\* What a step of SpecOrder leaves alone.
OrderFrame ==
    UNCHANGED << logVars, notifVars, watchVars, ctlVars, injVars, refreshVars, endpointVars,
                 pidCheck, regVars >>

\* What the environment and the websocket clients leave alone.
OrderEnvFrame == UNCHANGED << events, lastDispatch, emits >>

\* The dispatcher with its callers (the queue consumer and direct calls of
\* reconcile_project_status), the hub delivering its events, the clients
\* and the environment.
\* The websocket whose deliveries SpecOrder follows.
OrderClients == {"w1"}

NextOrder ==
    \/ \E p \in ActiveProjects : \E line \in {StatusLine("COMPLETE"), PhaseLine("A")} :
            /\ envWrites < MaxOrderWrites
            /\ PlanAppendLine(p, line)
            /\ UNCHANGED << statusVars, ledgerVars, hubVars, received >>
            /\ OrderEnvFrame /\ OrderFrame
    \/ \E p \in ActiveProjects :
            /\ envWrites < MaxOrderWrites
            /\ envWrites' = envWrites + 1
            /\ LedgerAppend(p, [kind |-> "record", iteration |-> 1])
            /\ UNCHANGED << statusVars, planVars, hubVars, received >>
            /\ OrderEnvFrame /\ OrderFrame
    \/ \E p \in ActiveProjects :
            /\ envWrites < MaxOrderWrites
            /\ PidWrite(p, TRUE)
            /\ UNCHANGED << planVars, ledgerVars, hubVars, received >>
            /\ OrderEnvFrame /\ OrderFrame
    \/ \E p \in ActiveProjects :
            /\ envWrites < MaxOrderWrites
            /\ ProcChange(p, [state |-> "running", foreign |-> FALSE, comm |-> << "(ralph.sh)" >>])
            /\ UNCHANGED << planVars, ledgerVars, hubVars, received >>
            /\ OrderEnvFrame /\ OrderFrame
    \/ \E w \in OrderClients :
            /\ HubConnect(w)
            /\ UNCHANGED << statusVars, planVars, ledgerVars, envWrites, received >>
            /\ OrderEnvFrame /\ OrderFrame
    \/ \E w \in OrderClients : \E p \in ActiveProjects :
            /\ HubSubscribe(w, {p})
            /\ received' = ReceivedAfterSubscribe(w, p)
            /\ UNCHANGED << statusVars, planVars, ledgerVars, envWrites >>
            /\ OrderEnvFrame /\ OrderFrame
    \/ \E w \in OrderClients : \E p \in ActiveProjects :
            /\ HubUnsubscribe(w, {p})
            /\ UNCHANGED << statusVars, planVars, ledgerVars, envWrites, received >>
            /\ OrderEnvFrame /\ OrderFrame
    \/ \E w \in OrderClients :
            /\ SocketBreaks(w)
            /\ UNCHANGED << statusVars, planVars, ledgerVars, envWrites, received >>
            /\ OrderEnvFrame /\ OrderFrame
    \/ \E p \in ActiveProjects :
            /\ DispatchLockFree /\ Len(events) + 2 <= MaxEmits
            /\ PlanDispatch(p) /\ lastDispatch' = "plan"
            /\ UNCHANGED << ledgerVars, hubVars, orderVars >> /\ OrderFrame
    \/ \E p \in ActiveProjects :
            /\ DispatchLockFree /\ Len(events) + 2 <= MaxEmits
            /\ LedgerDispatch(p) /\ lastDispatch' = "ledger"
            /\ UNCHANGED << statusVars, planVars, envWrites, hubVars, orderVars >> /\ OrderFrame
    \/ \E p \in ActiveProjects :
            /\ DispatchLockFree /\ Len(events) + 2 <= MaxEmits
            /\ StatusDispatch(p) /\ lastDispatch' = "status"
            /\ UNCHANGED << planVars, ledgerVars, hubVars, orderVars >> /\ OrderFrame
    \/ \E p \in ActiveProjects :
            /\ DispatchLockFree /\ Len(events) + 2 <= MaxEmits
            /\ StatusDispatch(p) /\ lastDispatch' = "reconcile"
            /\ UNCHANGED << planVars, ledgerVars, hubVars, orderVars >> /\ OrderFrame
    \/ /\ EmitBegin
       /\ UNCHANGED << events, statusVars, planVars, ledgerVars, envWrites, lastDispatch >>
       /\ OrderFrame
    \/ \E k \in 1..MaxEmits : \E w \in OrderClients :
            /\ EmitSend(k, w)
            /\ UNCHANGED << events, statusVars, planVars, ledgerVars, envWrites, lastDispatch >>
            /\ OrderFrame
    \/ \E k \in 1..MaxEmits :
            /\ EmitEnd(k)
            /\ UNCHANGED << events, statusVars, planVars, ledgerVars, envWrites, lastDispatch >>
            /\ OrderFrame

\* The callers whose requests may be under way at once.
RefreshCallers == {1, 2}

\* discover_all_project_paths returns its cache (lines 98-102).
DiscoverCached == ~IsNone(discoveryCache) /\ cacheFresh

\* refresh_projects once discover_all_project_paths has returned `desired`
\* (lines 178-186), ending the request of caller c.
RefreshApplies(c, desired) ==
    /\ observers' = ObserversAfterRefresh(desired)
    /\ lastDesired' = desired
    /\ refreshTick' = ~refreshTick
    /\ refreshCalls' = [refreshCalls EXCEPT ![c].stage = "done"]

\* refresh_projects up to the first suspension of
\* discover_all_project_paths: with a fresh cache it runs to its end on the
\* cached list, otherwise it waits for the scan in the thread pool.
RefreshBegins(c, op, p) ==
    IF DiscoverCached
    THEN /\ observers' = ObserversAfterRefresh(Get(discoveryCache))
         /\ lastDesired' = Get(discoveryCache)
         /\ refreshTick' = ~refreshTick
         /\ refreshCalls' = [refreshCalls EXCEPT ![c] =
                                [stage |-> "done", op |-> op, project |-> p]]
    ELSE /\ refreshCalls' = [refreshCalls EXCEPT ![c] =
                                [stage |-> "scanning", op |-> op, project |-> p]]
         /\ UNCHANGED << observers, lastDesired, refreshTick >>

\* A caller is free to make a request.
CallerFree(c) ==
    /\ refreshCalls[c].stage # "scanning"
    /\ requestCount < MaxRequests

\* app_lifespan: file_watcher_service.start(), which ends in refresh_projects.
StartRequest(c) ==
    /\ CallerFree(c)
    /\ ~svcRunning
    /\ svcRunning' = TRUE
    /\ requestCount' = requestCount + 1
    /\ RefreshBegins(c, "start", "p1")
    /\ UNCHANGED << registry, discoveryCache, cacheFresh, rootState, queuedFor >>

\* POST /projects: register_project_path, then _refresh_file_watcher.
RegisterRequest(c, p) ==
    /\ CallerFree(c)
    /\ svcRunning
    /\ registry' = registry \cup {p}
    /\ requestCount' = requestCount + 1
    /\ RefreshBegins(c, "register", p)
    /\ UNCHANGED << discoveryCache, cacheFresh, svcRunning, rootState, queuedFor >>

\* DELETE /projects/{id}: unregister_project_by_id, then (if a path was
\* removed) _refresh_file_watcher.
UnregisterRequest(c, p) ==
    /\ CallerFree(c)
    /\ svcRunning
    /\ p \in registry
    /\ registry' = registry \ {p}
    /\ requestCount' = requestCount + 1
    /\ RefreshBegins(c, "unregister", p)
    /\ UNCHANGED << discoveryCache, cacheFresh, svcRunning, rootState, queuedFor >>

\* The scan has returned: discover_all_project_paths reads the registry,
\* stores the list in the cache (lines 105-112) and refresh_projects goes on.
RefreshResumes(c) ==
    /\ refreshCalls[c].stage = "scanning"
    /\ discoveryCache' = Some(registry)
    /\ cacheFresh' = TRUE
    /\ RefreshApplies(c, registry)
    /\ UNCHANGED << registry, requestCount, svcRunning, rootState, queuedFor >>

\* Time passes: the cache is older than _DISCOVERY_CACHE_TTL_SECONDS.
CacheExpires ==
    /\ cacheFresh
    /\ cacheFresh' = FALSE
    /\ UNCHANGED << registry, discoveryCache, refreshCalls, requestCount, refreshVars >>

\* What a step of SpecRegistry leaves alone.
RegistryFrame ==
    UNCHANGED << events, logVars, ledgerVars, statusVars, planVars, notifVars, watchVars,
                 hubVars, ctlVars, envWrites, injVars, endpointVars, pidCheck, lastDispatch,
                 orderVars >>

NextRegistry ==
    \/ \E c \in RefreshCallers : StartRequest(c) /\ RegistryFrame
    \/ \E c \in RefreshCallers : \E p \in ProjectIds : RegisterRequest(c, p) /\ RegistryFrame
    \/ \E c \in RefreshCallers : \E p \in ProjectIds : UnregisterRequest(c, p) /\ RegistryFrame
    \/ \E c \in RefreshCallers : RefreshResumes(c) /\ RegistryFrame
    \/ CacheExpires /\ RegistryFrame

\* What a step of the websocket endpoint leaves alone.
EndpointFrame ==
    UNCHANGED << events, logVars, ledgerVars, statusVars, planVars, notifVars, watchVars,
                 ctlVars, envWrites, injVars, refreshVars, raceVars >>

NextEndpoint ==
    \/ \E w \in Sockets : \E token \in Tokens : EndpointBegin(w, token) /\ EndpointFrame
    \/ \E w \in Sockets : \E first \in FirstMessages :
            EndpointFirstMessage(w, first) /\ EndpointFrame

SpecLog == Init /\ [][NextLog]_vars
SpecLedger == Init /\ [][NextLedger]_vars
SpecStatus == Init /\ [][NextStatus]_vars
SpecPlan == Init /\ [][NextPlan]_vars
SpecNotif == Init /\ [][NextNotif]_vars
SpecWatch == Init /\ [][NextWatch]_vars
SpecHub == Init /\ [][NextHub]_vars
SpecControl == Init /\ [][NextControl]_vars
SpecInject == Init /\ [][NextInject]_vars
SpecRefresh == Init /\ [][NextRefresh]_vars
SpecEndpoint == Init /\ [][NextEndpoint]_vars
SpecRegistry == Init /\ [][NextRegistry]_vars
SpecOrder == Init /\ [][NextOrder]_vars
SpecDispatch == Init /\ [][NextDispatch]_vars
SpecPidRace == Init /\ [][NextPidRace]_vars
SpecReconcile == Init /\ [][NextReconcile]_vars /\ ReconcileFairness

\* ================================================================== claims

\* The log_append payloads of project p among evs[from+1..], joined.
RECURSIVE LogPayloads(_, _, _)
LogPayloads(evs, from, p) ==
    IF from >= Len(evs) THEN << >>
    ELSE LET e == evs[from + 1]
         IN (IF e.type = "log_append" /\ e.project = p THEN e.data.lines ELSE << >>)
                \o LogPayloads(evs, from + 1, p)

\* The events of one type of project p, in order.
EventsOf(type, p) == SelectSeq(events, LAMBDA e : e.type = type /\ e.project = p)

\* No dispatch of p's log is under way and none is owed: the file is as
\* the last dispatch saw it, and no write ever fell between a stat and its read.
LogSettled(p) == ~logDirty[p] /\ ~LogRacing(p) /\ ~logRaced[p]

\* C1: for a log that is only appended to and was first read while not
\* larger than the cap, once the dispatcher has seen the last append the
\* log_append payloads of the project, joined, are the file up to and
\* including its last line terminator.
C1_AppendsDeliveredExactly ==
    \A p \in ProjectIds :
        (LogSettled(p) /\ logRewrites[p] = 0 /\ logSeen[p] # "big")
            => LogPayloads(events, 0, p) = CompleteLines(logFile[p].data)

\* pl is made of whole lines of file: it ends with a terminator and sits in
\* file at a place that starts a line.
WholeLinesOf(pl, file) ==
    /\ pl # << >>
    /\ pl[Len(pl)] = NL
    /\ \E k \in 0..(Len(file) - Len(pl)) :
          /\ k = 0 \/ file[k] = NL
          /\ SubSeq(file, k + 1, k + Len(pl)) = pl

\* C2: the payload of the first read of an append-only log, also of one
\* that is larger than the cap, consists of whole lines of the file.
C2_PayloadsAreWholeLines ==
    \A p \in ProjectIds :
        (LogSettled(p) /\ logRewrites[p] = 0 /\ logReads[p] = 1)
            => \A i \in 1..Len(events) :
                  (events[i].type = "log_append" /\ events[i].project = p)
                      => WholeLinesOf(events[i].data.lines, logFile[p].data)

\* C3: after a truncation and new content (here: content that fits one
\* read), the first dispatch delivers the new content from its first byte
\* and nothing else.
C3_TruncationResetsCursor ==
    \A p \in ProjectIds :
        (/\ LogSettled(p)
         /\ logTruncated[p]
         /\ logReads[p] = 1
         /\ Len(logFile[p].data) <= MAX_APPEND_BYTES)
            => LogPayloads(events, logEpoch[p], p) = CompleteLines(logFile[p].data)

\* C4: at most one iteration_started and at most one iteration_completed
\* per project and iteration number.
C4_AtMostOneAnnouncement ==
    \A p \in ProjectIds : \A n \in 1..MaxIteration :
        /\ Len(SelectSeq(EventsOf("iteration_started", p),
                         LAMBDA e : e.data.iteration = n)) <= 1
        /\ Len(SelectSeq(EventsOf("iteration_completed", p),
                         LAMBDA e : e.data.iteration = n)) <= 1

\* C4, its case: a ledger whose last record was dispatched again with the
\* file unchanged, and whose number also stands on an earlier line.
C4_Witness ==
    \E p \in ProjectIds :
        /\ ledgerReads[p] = 2
        /\ Len(ledger[p]) >= 2
        /\ ledger[p][Len(ledger[p])].kind = "record"
        /\ ledger[p][1] = ledger[p][Len(ledger[p])]
        /\ Len(EventsOf("iteration_started", p)) = 1
        /\ Len(EventsOf("iteration_completed", p)) = 1

\* C5: once the dispatcher has seen the last append of a ledger of
\* well-formed records, every number on a line has its iteration_started.
C5_EveryLedgerLineStarted ==
    \A p \in ProjectIds :
        (/\ ledgerReads[p] > 0
         /\ \A i \in 1..Len(ledger[p]) : ledger[p][i].kind = "record")
            => \A i \in 1..Len(ledger[p]) :
                  \E k \in 1..Len(events) :
                      /\ events[k].type = "iteration_started"
                      /\ events[k].project = p
                      /\ events[k].data.iteration = ledger[p][i].iteration

\* C6: while the plan file of a project has the structure (tasks_done,
\* tasks_total, the phases with name, counts and status) that the last
\* plan_updated of the project announced, no step emits another plan_updated
\* for the project, however often the plan change is dispatched and however
\* the file was written in between.
C6_NoRepeatedPlanUpdate ==
    [][\A p \in ProjectIds :
          ( /\ planFile'[p].exists
            /\ LastPlanUpdated(events, p)
                  = Some(PlanSnapshot(ParseImplementationPlan(planFile'[p].lines))) )
          => LastPlanUpdated(events', p) = LastPlanUpdated(events, p)
             /\ Len(SelectSeq(events', LAMBDA e : e.type = "plan_updated" /\ e.project = p))
                  = Len(EventsOf("plan_updated", p))]_vars

\* C6, its case: a plan with tasks was announced, written again with the
\* announced structure, and dispatched twice since.
C6_Witness ==
    \E p \in ProjectIds :
        /\ planRepeat[p]
        /\ planReads[p] = 2
        /\ Len(EventsOf("plan_updated", p)) = 1
        /\ EventsOf("plan_updated", p)[1].data.tasks_total > 0

\* C8: the status_changed events of a project form a chain: the first has
\* no previous, each later one has the status of the one before it as its
\* previous and another status than that; so an evaluation that computes
\* the last announced status has emitted nothing.
C8_StatusChain ==
    \A p \in ProjectIds :
        LET mine == EventsOf("status_changed", p)
        IN /\ \A k \in 1..Len(mine) :
                 /\ mine[k].data.previous = (IF k = 1 THEN None ELSE Some(mine[k - 1].data.status))
                 /\ mine[k].data.previous # Some(mine[k].data.status)
           /\ statuses[p] = (IF mine = << >> THEN None ELSE Some(mine[Len(mine)].data.status))

\* C8, its case: a project announced as running got a pause sentinel; the
\* next evaluation emitted paused with previous running, once, and the
\* evaluation after it nothing.
C8_Witness ==
    \E p \in ProjectIds :
        LET mine == EventsOf("status_changed", p)
        IN /\ Len(mine) = 2
           /\ mine[2].data = [status |-> "paused", previous |-> Some("running")]
           /\ pauseFile[p]
           /\ statusQuiet[p]

\* The table of the status rule: live is a process that exists and is no
\* zombie, or one that cannot be signalled for lack of permission.
PidIsLive(p) ==
    /\ pidFile[p].exists
    /\ pidFile[p].valid
    /\ \/ loopProc[p].state = "running"
       \/ loopProc[p].state # "none" /\ loopProc[p].foreign

TableStatus(p) ==
    IF PidIsLive(p) /\ pauseFile[p] THEN "paused"
    ELSE IF PidIsLive(p) THEN "running"
    ELSE IF IsPlanComplete(planFile[p]) THEN "complete"
    ELSE "stopped"

\* C9: for every PID file, process, pause sentinel and plan,
\* detect_project_status returns what the table says: paused or running
\* for a live PID with or without the sentinel, complete for no live PID and
\* a plan with the marker, stopped otherwise.
C9_StatusFollowsTable ==
    \A p \in ProjectIds : DetectProjectStatus(p) = TableStatus(p)

\* C7: consecutive dispatches of the pending notification that read the same
\* content (a JSON object or free text), also when the file was written
\* again with that content between them, emit one notification between
\* them: never more, and one when nothing was announced before.
C7_IdenticalContentNotifiedOnce ==
    \A p \in ProjectIds :
        ( /\ notifRun[p].dispatches >= 2
          /\ ~IsNone(notifRun[p].content)
          /\ Get(notifRun[p].content).form \in {"json_object", "text"} )
        => /\ notifRun[p].emitted <= 1
           /\ notifRun[p].fresh => notifRun[p].emitted = 1

\* Nothing is on its way to the dispatcher: no notification unhandled, no
\* put scheduled, nothing queued. From here nothing is dispatched until a
\* file is written again.
WatchQuiescent == fsEvents = << >> /\ scheduledPuts = << >> /\ queue = << >>

\* C10: every write of a watched file is followed by a dispatch for that
\* file, also when no further write comes: when nothing is on its way to
\* the dispatcher any more, the last dispatch for each file was at or after
\* its last write.
C10_EveryWriteDispatched ==
    WatchQuiescent => \A f \in WatchFiles : seenVer[f] = fileVer[f]

\* C11: every event put on the queue is passed to the change handler once
\* and in the order of the queue: each event taken off the queue so far was
\* handled, the i-th handled event being the i-th queued one.
C11_EveryQueuedEventHandled ==
    /\ Len(handledLog) = dequeued
    /\ \A i \in 1..Len(handledLog) : handledLog[i].index = i

\* C12: an exception in one handler invocation does not cost any later
\* event: when nothing is on its way any more, every event queued behind an
\* invocation that failed was passed to the handler.
C12_EventsAfterFailureHandled ==
    WatchQuiescent =>
        \A i \in 1..Len(handledLog) :
            ~handledLog[i].ok =>
                \A k \in (handledLog[i].index + 1)..dequeued :
                    \E j \in 1..Len(handledLog) : handledLog[j].index = k

\* C13: the connections a broadcast sends to are the registered
\* connections that were subscribed to its project when the targets were
\* selected, and every registered connection for a broadcast without project.
C13_SentToSubscribersOnly ==
    \A b \in 1..Len(broadcasts) :
        broadcasts[b].sent \cup broadcasts[b].failed \cup broadcasts[b].remaining
            = broadcasts[b].eligible

\* C13, its case: a broadcast for a project has ended and reached a
\* subscriber, while a registered connection without that subscription got
\* nothing.
C13_Witness ==
    \E b \in 1..Len(broadcasts) :
        /\ broadcasts[b].ended
        /\ ~IsNone(broadcasts[b].project)
        /\ broadcasts[b].sent # {}
        /\ \E w \in connections :
              /\ w \notin broadcasts[b].eligible
              /\ \A k \in 1..Len(broadcasts) : w \notin broadcasts[k].sent

\* C14: a broadcast that has ended has reached every selected recipient
\* but those whose send failed; these are then in neither the registry nor
\* the subscription map, and no broadcast begun after it selects them.
C14_FailedRecipientDropped ==
    \A b \in 1..Len(broadcasts) :
        /\ broadcasts[b].ended =>
              /\ broadcasts[b].sent = broadcasts[b].eligible \ broadcasts[b].failed
              /\ broadcasts[b].failed \cap connections = {}
              /\ broadcasts[b].failed \cap DOMAIN subscriptions = {}
        /\ (broadcasts[b].sent \cup broadcasts[b].failed \cup broadcasts[b].remaining)
              \cap broadcasts[b].barred = {}

\* C14, its case: a broadcast failed for one recipient and reached another;
\* a broadcast begun after it reached the other again.
C14_Witness ==
    \E b1, b2 \in 1..Len(broadcasts) :
        /\ broadcasts[b1].ended /\ broadcasts[b2].ended
        /\ broadcasts[b1].failed # {}
        /\ broadcasts[b1].sent # {}
        /\ broadcasts[b2].barred = broadcasts[b1].failed
        /\ broadcasts[b2].sent = broadcasts[b1].sent

\* A step in which a call of the supervisor begins and returns at once.
CallReturns(op, p) ==
    /\ callCount' # callCount
    /\ stopCall' = stopCall
    /\ lastCall'.op = op
    /\ lastCall'.project = p

\* A step in which start for p returns, with a result or an error.
StartReturns(p) == CallReturns("start", p)

\* A step in which stop for p returns.
StopReturns(p) ==
    /\ lastCall'.op = "stop"
    /\ lastCall'.project = p
    /\ IsNone(stopCall'[p])
    /\ callCount' # callCount \/ ~IsNone(stopCall[p])

\* The loop processes start has launched for p that are running.
LiveLoops(p) ==
    { pid \in Pids : /\ procTraits[pid].launched
                     /\ procTraits[pid].project = p
                     /\ procTable[pid].state = "running" }

\* C15: a start for a project of which a loop process launched by an
\* earlier start is still running fails with ProcessAlreadyRunningError and
\* launches nothing.
C15_SecondStartRejected ==
    [][\A p \in ProjectIds :
          (StartReturns(p) /\ LiveLoops(p) # {})
          => /\ lastCall'.error = "ProcessAlreadyRunningError"
             /\ procTable' = procTable]_vars

\* C16: when start returns a PID, the PID file of the project exists and
\* holds that PID.
C16_StartRecordsPid ==
    [][\A p \in ProjectIds :
          (StartReturns(p) /\ lastCall'.ok)
          => pidFile'[p] = [exists |-> TRUE, valid |-> TRUE, pid |-> lastCall'.pid]]_vars

C18_KillOnlyAfterGrace ==
    \A p \in ProjectIds :
        \A i \in 1..Len(signalLog[p]) :
            signalLog[p][i].sig = "SIGKILL"
            => /\ \E j \in 1..(i - 1) :
                     /\ signalLog[p][j].sig = "SIGTERM"
                     /\ signalLog[p][j].call = signalLog[p][i].call
               /\ ~signalLog[p][i].exited

\* C19: when stop returns true, neither the loop process nor a child in its
\* process group is still running.
C19_StopReapsGroup ==
    [][\A p \in ProjectIds :
          (StopReturns(p) /\ lastCall'.ok /\ lastCall'.pid \in Pids)
          => /\ procTable'[lastCall'.pid].state # "running"
             /\ procTraits'[lastCall'.pid].child = "none"]_vars

RECURSIVE JoinMessages(_)
JoinMessages(msgs) ==
    IF msgs = << >> THEN << >>
    ELSE IF Len(msgs) = 1 THEN msgs[1] \o << NL >>
    ELSE msgs[1] \o << NL, NL >> \o JoinMessages(Tail(msgs))

\* C21: an inject call with an empty or whitespace-only message fails and
\* leaves the inject file as it was; after any inject calls with no
\* consumption in between the file holds the stripped messages in call
\* order, one blank line between them, a newline at the end.
C21_InjectFileHoldsMessages ==
    \A p \in ProjectIds :
        /\ (lastInject.project = p /\ ~lastInject.ok /\ injected[p] = << >>)
              => injectFile[p] = lastInject.before
        /\ injected[p] # << >>
              => injectFile[p] = Some(JoinMessages(injected[p]))

\* C22: the statuses announced for a project follow stopped <-> running <->
\* paused, with complete standing for stopped: no status_changed reports
\* paused after stopped or complete, none stopped or complete after paused.
C22_StatusFollowsStateMachine ==
    \A i \in 1..Len(events) :
        (events[i].type = "status_changed" /\ ~IsNone(events[i].data.previous))
        => LET current == events[i].data.status
               previous == Get(events[i].data.previous)
           IN /\ ~(current = "paused" /\ previous \in {"stopped", "complete"})
              /\ ~(current \in {"stopped", "complete"} /\ previous = "paused")

\* A step in which refresh_projects runs on a running service.
RefreshReturns == refreshTick' # refreshTick

\* The desired projects whose root is a directory that can be watched.
Watchable(desired) == { p \in desired : rootState[p] = "dir" }

\* C23: after a refresh the watched projects are the desired projects whose
\* root is an existing directory that can be watched, and a refresh whose
\* desired set is the watched set starts and stops no watch.
C23_WatchedIsDesired ==
    [][RefreshReturns
       => /\ observers' = Watchable(lastDesired')
          /\ lastDesired' = observers => observers' = observers]_vars

\* The dispatcher keeps nothing of project p.
DispatcherStateDiscarded(p) ==
    /\ IsNone(log_offsets[p])
    /\ IsNone(log_mtimes_ns[p])
    /\ IsNone(log_prefixes[p])
    /\ log_remainders[p] = << >>
    /\ started_iterations[p] = {}
    /\ completed_iterations[p] = {}
    /\ IsNone(plan_snapshots[p])
    /\ IsNone(last_notification_keys[p])
    /\ IsNone(statuses[p])

\* C24: when a refresh removes a project from the watched set, the
\* dispatcher state of the project is discarded in the same step.
C24_RemovalDiscardsState ==
    [][\A p \in ProjectIds :
          (RefreshReturns /\ p \in observers /\ p \notin observers')
          => DispatcherStateDiscarded(p)']_vars

\* C25: a notification that comes less than the debounce window after the
\* last queued notification for the same path is not queued; a notification
\* is kept off the queue only by a notification for its own path within the
\* window before it, or by a queue at capacity.
C25_DebouncePerPath ==
    \A j \in 1..Len(notifyLog) :
        /\ \A i \in 1..(j - 1) :
              ( /\ notifyLog[i].path = notifyLog[j].path
                /\ notifyLog[i].queued
                /\ notifyLog[j].at - notifyLog[i].at < DEBOUNCE_TICKS )
              => ~notifyLog[j].queued
        /\ ~notifyLog[j].queued
              => \/ notifyLog[j].full
                 \/ \E i \in 1..(j - 1) :
                       /\ notifyLog[i].path = notifyLog[j].path
                       /\ notifyLog[j].at - notifyLog[i].at < DEBOUNCE_TICKS

\* C25, its case: a burst of two notifications for one path gave one
\* ChangeEvent, and a notification for the other path within the window was
\* queued.
C25_Witness ==
    /\ Len(notifyLog) = 3
    /\ notifyLog[1].path = notifyLog[2].path
    /\ notifyLog[1].queued
    /\ ~notifyLog[2].queued
    /\ notifyLog[3].path # notifyLog[1].path
    /\ notifyLog[3].at - notifyLog[1].at < DEBOUNCE_TICKS
    /\ notifyLog[3].queued

\* C26: the queue never holds more ChangeEvents than its capacity.
C26_QueueWithinCapacity == Len(queue) <= MAX_QUEUE_SIZE

\* The calls made on websocket w, in order.
CallsOn(w) == SelectSeq(wsLog, LAMBDA c : c.sock = w)

\* The endpoint of w has rejected the connection for its token.
Rejected(w) == epState[w] = "returned" /\ epToken[w] # "good"

\* C27: a websocket is registered with the hub only after it presented a
\* valid token; one with a missing or an invalid token is closed with code
\* 1008, reason "Not authenticated" or "Invalid access token", and is
\* never accepted.
C27_NoTokenNoConnection ==
    \A w \in Sockets :
        /\ (w \in connections \/ w \in DOMAIN subscriptions) => epToken[w] = "good"
        /\ Rejected(w)
              => LET last == CallsOn(w)[Len(CallsOn(w))]
                 IN /\ \A i \in 1..Len(CallsOn(w)) : CallsOn(w)[i].call # "accept"
                    /\ last.call = "close"
                    /\ last.code = 1008
                    /\ last.reason = IF epToken[w] = "none" THEN "Not authenticated"
                                                            ELSE "Invalid access token"

\* C28: the endpoint of a websocket that presented a valid token has
\* registered it with the hub and handles its messages.
C28_AuthenticatedIsRegistered ==
    \A w \in Sockets :
        (epToken[w] = "good" /\ epState[w] \notin {"idle", "awaitAuth", "gone"})
        => /\ epState[w] = "loop"
           /\ w \in connections

\* A step in which the status of p is evaluated and its outcome shows.
StatusEvaluated(p) == statuses'[p] # statuses[p] \/ statusQuiet'[p] # statusQuiet[p]

\* The PID file of p names a process that is gone or a zombie.
PidIsStale(p) ==
    /\ ~IsNone(ReadPid(pidFile[p]))
    /\ loopProc[p].state \in {"none", "zombie"}

\* C29: a status evaluation that finds the PID file naming a process that
\* no longer exists or is a zombie deletes the PID file and reports the
\* project as not running.
C29_StalePidFileDeleted ==
    [][\A p \in ProjectIds :
          (StatusEvaluated(p) /\ PidIsStale(p))
          => /\ ~pidFile'[p].exists
             /\ statuses'[p] \in {Some("stopped"), Some("complete")}]_vars

\* C30: a stop call that fails, fails with a typed error of the supervisor.
C30_StopFailsTyped ==
    [][\A p \in ProjectIds :
          (StopReturns(p) /\ lastCall'.error # "")
          => lastCall'.error \in ProcessManagerErrors]_vars

\* The status announced last for p is not the status of p.
StatusDrift(p) == ~IsNone(statuses[p]) /\ statuses[p] # Some(DetectProjectStatus(p))

\* C31: whenever the status of a project differs from the one announced
\* last, the announced status catches up in the end, also when no watched
\* file of the project changes.
C31_DriftReconciled ==
    \A p \in ActiveProjects : StatusDrift(p) ~> ~StatusDrift(p)

\* The offset the read of the dispatch in flight starts at (lines 150-181).
LogReadStart(p) ==
    LET size == Get(logInflight).size
        current_prefix == Take(logFile[p].data, Min(PROBE_BYTES, size))
        stored_offset == IF IsNone(log_offsets[p]) THEN 0 ELSE Get(log_offsets[p])
        offset1 == IF LogResets(p, size, Get(logInflight).stamp, current_prefix)
                   THEN 0 ELSE stored_offset
    IN IF LogSkipsToTail(offset1, size) THEN size - MAX_APPEND_BYTES ELSE offset1

\* The bytes handle.read(_MAX_APPEND_BYTES) returns from that offset (line 182).
LogReadChunk(p) ==
    SubSeq(logFile[p].data, LogReadStart(p) + 1,
           Min(Len(logFile[p].data), LogReadStart(p) + MAX_APPEND_BYTES))

\* The log of p grew between the stat of the dispatch in flight and now.
LogGrewSinceStat(p) ==
    /\ LogRacing(p)
    /\ logFile[p].exists
    /\ Len(logFile[p].data) > Get(logInflight).size

\* C32: when the log is appended to between the size stat and the chunk
\* read of a dispatch, the offset stored by that dispatch is the offset the
\* read started at plus the number of bytes the read consumed.
C32_OffsetIsStartPlusConsumed ==
    [][\A p \in LogProjects :
          (LogGrewSinceStat(p) /\ logInflight' = None /\ logFile' = logFile)
              => log_offsets'[p] = Some(LogReadStart(p) + Len(LogReadChunk(p)))]_vars

\* The log the dispatch in flight reads is not the log the cursor was stored
\* for: it is shorter than the stored offset, or it does not begin with the
\* cached prefix.
LogRewriteSeen(p) ==
    LET size == Get(logInflight).size
        stored_offset == IF IsNone(log_offsets[p]) THEN 0 ELSE Get(log_offsets[p])
    IN \/ size < stored_offset
       \/ /\ ~IsNone(log_prefixes[p])
          /\ Take(logFile[p].data, Len(Get(log_prefixes[p]))) # Get(log_prefixes[p])

\* The read of the dispatch in flight takes the log for rewritten: offset 0
\* and no partial line kept (lines 159-174).
LogReadResets(p) ==
    LogResets(p, Get(logInflight).size, Get(logInflight).stamp,
              Take(logFile[p].data, Min(PROBE_BYTES, Get(logInflight).size)))

\* C33: a dispatch that finds the log shorter than the stored offset, or
\* beginning with other bytes than the cached prefix, resets the offset to
\* 0 and drops the partial line, whatever the size of the new log (the log
\* being left alone between the stat and the read of that dispatch).
C33_RewriteDetected ==
    [][\A p \in LogProjects :
          (/\ LogRacing(p) /\ logFile[p].exists
           /\ logFile[p].stamp = Get(logInflight).stamp
           /\ logInflight' = None /\ logFile' = logFile
           /\ LogRewriteSeen(p))
              => LogReadResets(p)]_vars

\* The PID file of p names a process that is running.
PidFileNamesLive(p) ==
    /\ ~IsNone(ReadPid(pidFile[p]))
    /\ loopProc[p].state = "running"

\* C34: no step of a status evaluation deletes a PID file that names a live
\* process, however the evaluation interleaves with the loop writing its
\* PID file.
C34_LivePidFileKept ==
    [][\A p \in ActiveProjects : PidFileNamesLive(p) => pidFile'[p].exists]_vars

\* The payload of the last plan_updated of p in evs, if any.
LastPlanPayload(evs, p) ==
    LET mine == SelectSeq(evs, LAMBDA e : e.type = "plan_updated" /\ e.project = p)
    IN IF mine = << >> THEN None ELSE Some(mine[Len(mine)].data)

\* The payload plan_updated has for a parsed plan (lines 242-251).
PlanPayload(parsed) ==
    [tasks_done |-> parsed.tasks_done, tasks_total |-> parsed.tasks_total,
     phases |-> parsed.phases, status |-> parsed.status]

\* C35: once a written plan has been dispatched, the last plan_updated of
\* the project carries the payload of that plan: tasks_done, tasks_total,
\* the phases and the STATUS marker; so a write that changes the marker
\* alone is announced.
C35_PlanPayloadAnnounced ==
    \A p \in ActiveProjects :
        (planFile[p].exists /\ planReads[p] >= 1)
            => LastPlanPayload(events, p)
                  = Some(PlanPayload(ParseImplementationPlan(planFile[p].lines)))

\* The events a step appends.
NewEvents == SubSeq(events', Len(events) + 1, Len(events'))

\* A step that dispatches a change of the plan file, resp. of the PID file
\* or the pause sentinel.
PlanDispatched == lastDispatch' = "plan" /\ envWrites' = envWrites
StatusDispatched == lastDispatch' = "status" /\ envWrites' = envWrites

\* C36: a dispatch of a plan change evaluates the status, whether or not it
\* announced the plan, and announces it after any plan_updated; when the
\* plan of a project that is not running and was announced as stopped has
\* STATUS: COMPLETE, that dispatch ends with status_changed {complete,
\* previous stopped}. A dispatch of a PID file or pause change emits nothing
\* but status_changed.
C36_PlanDispatchEvaluatesStatus ==
    [][\A p \in ActiveProjects :
          /\ PlanDispatched =>
                /\ statuses'[p] = Some(DetectProjectStatus(p))
                /\ \A i \in 1..Len(NewEvents) :
                      /\ NewEvents[i].type \in {"plan_updated", "status_changed"}
                      /\ NewEvents[i].type = "plan_updated" => i = 1
                /\ ( /\ statuses[p] = Some("stopped")
                     /\ ~PidIsLive(p)
                     /\ IsPlanComplete(planFile[p]) )
                   => /\ NewEvents # << >>
                      /\ NewEvents[Len(NewEvents)]
                            = [type |-> "status_changed", project |-> p,
                               data |-> [status |-> "complete",
                                         previous |-> Some("stopped")]]
          /\ StatusDispatched =>
                \A i \in 1..Len(NewEvents) : NewEvents[i].type = "status_changed"]_vars

\* A step in which broadcast b delivers its event to websocket w.
Delivers(b, w) ==
    /\ b \in 1..Len(broadcasts)
    /\ broadcasts' # broadcasts
    /\ Len(broadcasts') = Len(broadcasts)
    /\ w \in broadcasts'[b].sent \ broadcasts[b].sent

\* C37: an event is delivered only to a websocket that is registered at
\* that moment and, for an event of a project, subscribed to the project at
\* that moment: nothing arrives after a disconnect or an unsubscribe has
\* completed, also when the broadcast selected its targets before.
C37_NoDeliveryAfterLeaving ==
    [][\A b \in 1..MaxBroadcasts : \A w \in Sockets :
          Delivers(b, w) => w \in Subscribers(broadcasts[b].project)]_vars

\* Event a comes before event b wherever one dispatch emits both.
InDispatchOrder(a, b) ==
    \A i \in 1..Len(NewEvents) : \A j \in 1..Len(NewEvents) :
        (NewEvents[i].type = a /\ NewEvents[j].type = b) => i < j

\* C38: a websocket receives the events of a project in the order the
\* dispatcher produced them and, while it stays subscribed, without a gap:
\* each event it is sent is the successor of the one it was sent before;
\* and one dispatch emits plan_updated before status_changed and
\* iteration_started before iteration_completed. Dispatches driven by the
\* queue and direct calls of reconcile_project_status interleave.
C38_ReceivedInOrder ==
    [][/\ \A w \in Sockets :
            (Len(received'[w]) = Len(received[w]) + 1 /\ received[w] # << >>)
                => received'[w][Len(received'[w])] = received[w][Len(received[w])] + 1
       /\ InDispatchOrder("plan_updated", "status_changed")
       /\ InDispatchOrder("iteration_started", "iteration_completed")]_vars

\* C38, its case: a websocket that stayed subscribed was sent plan_updated
\* and status_changed of a plan dispatch and then the status_changed of a
\* direct reconcile call (the plan had got its STATUS: COMPLETE line).
C38_Witness ==
    \E w \in Sockets :
        /\ received[w] = << 1, 2, 3 >>
        /\ events[1].type = "plan_updated"
        /\ events[2].type = "status_changed"
        /\ events[3].type = "status_changed"
        /\ lastDispatch = "reconcile"

\* Both callers have registered or unregistered a project and the refresh
\* calls of their requests have completed.
RefreshesCompleted ==
    \A c \in RefreshCallers :
        /\ refreshCalls[c].stage = "done"
        /\ refreshCalls[c].op \in {"register", "unregister"}

\* C39: once the refresh calls of two requests made side by side have all
\* completed, in whatever order they ran, the watched projects are the
\* registered projects.
C39_WatchedIsRegistry ==
    (svcRunning /\ RefreshesCompleted) => observers = registry

\* A step that ends the request of caller c.
RequestCompletes(c) == refreshCalls'[c] # refreshCalls[c] /\ refreshCalls'[c].stage = "done"

\* C40: when the refresh of a register request has completed the project
\* (if no other request has unregistered it since) is watched, and when
\* that of an unregister request has completed the project (if not
\* registered again since) is no longer watched, whatever the age of the
\* cached project list.
C40_RequestTakesEffect ==
    [][\A c \in RefreshCallers :
          RequestCompletes(c) =>
              LET p == refreshCalls'[c].project
              IN /\ (refreshCalls'[c].op = "register" /\ p \in registry')
                        => p \in observers'
                 /\ (refreshCalls'[c].op = "unregister" /\ p \notin registry')
                        => p \notin observers']_vars

====
